---- MODULE Spec2Model ----
(***************************************************************************)
(* Model of the fluence-map reconstruction of irrad_control                *)
(* (src/irrad_control/analysis/fluence.py).                                *)
(*                                                                         *)
(* Fixed-point conventions (the code computes in float64):                 *)
(*   positions     1 unit = 1/12 mm, so the 0.5 mm edge tolerance is 6     *)
(*   timestamps    1 tick = 1/100 s                                        *)
(*   speeds        units/s, accelerations units/s^2; the running speed of  *)
(*                 the ramp loop is kept in 1/100 units/s                  *)
(*   charge        currents are counted in elementary charges per tick     *)
(*   map cells     1/1000 ion per unit^2                                   *)
(* Divisions round towards zero, square roots round down.                  *)
(* Sequences are 1-based: the code's index k is k + 1 here; the cursor     *)
(* current_row_idx keeps the code's meaning, the number of samples that    *)
(* lie before the current slice.                                           *)
(***************************************************************************)
EXTENDS Integers, Sequences, FiniteSets, TLC

VARIABLES
    beam_data,              \* the beam-sample table, ordered by timestamp
    irrad_data,             \* scan area and beam width of the session
    n_scan_rows,            \* len(scan_data)
    row_data,               \* the row handed to the running / last _process_row
    rows_done,              \* rows of scan_data consumed by the loop
    current_row_idx,        \* the cursor of generate_fluence_map
    fluence_map,            \* value grid    [j][i], j over y, i over x
    fluence_map_error,      \* variance grid [j][i]
    row_bin_transit_times,  \* the buffer reused by every row
    pc,                     \* "loop", "returned", "raised", "kernel", "extract", "transit",
                            \* "scan", "mass", "threads", "wait", "device", "gui", "closed"
    error,                  \* message of the exception that propagated, or "none"
    finalize_count,         \* how often lines 88-93 ran
    call_row_idx,           \* cursor passed to the last _process_row
    row_window,             \* indices of beam_data in the last row_beam_data
    wait_window,            \* indices of beam_data in the last wait slice
    wait_ran,               \* whether the last row called _process_row_wait
    deposits,               \* kernel calls of the last row, in call order
    kernel_call,            \* arguments of the last direct kernel call
    kernel_before,          \* both grids as they were before that call
    touched,                \* cells written by the last kernel call
    unscaled,               \* both grids as they were when line 88 was reached
    dut_call,               \* arguments of the last extract_dut_map call
    dut_result,             \* what that call returned or raised
    transit_call,           \* arguments of the last direct _calc_bin_transit_times call
    transit_result,         \* which bins that call wrote and how it ended
    scan_input,             \* the row and samples of the direct _process_row_scan calls
    scan_calls,             \* those calls, each from empty grids, with their results
    device_available,       \* TCA9555._device_available: whether the Event is set
    thread_pc,              \* where each thread is in the wrapper of _event_lock
    thread_func,            \* the decorated method each thread called last
    lock_calls,             \* calls of decorated methods started so far
    window_log,             \* the sample windows of every row processed so far
    registers,              \* the TCA9555: register name -> bytes of port 0 and port 1
    io_call,                \* the last call of a register method and its arguments
    io_result,              \* what that call returned or raised, and what it wrote
    cmd_id,                 \* IrradGUI._cmd_id
    cmd_reply,              \* IrradGUI._cmd_reply: hostname -> list of command IDs
    try_close,              \* IrradGUI._try_close
    log_close,              \* IrradGUI._log_close
    workers,                \* the QtWorkers started so far
    active_pids,            \* proc_mngr.active_pids: hostname -> 'active' flag
    close_event             \* the last closeEvent: what it saw and what it decided

vars == <<beam_data, irrad_data, n_scan_rows, row_data, rows_done, current_row_idx,
          fluence_map, fluence_map_error, row_bin_transit_times, pc, error,
          finalize_count, call_row_idx, row_window, wait_window, wait_ran,
          deposits, kernel_call, kernel_before, touched, unscaled,
          dut_call, dut_result, transit_call, transit_result, scan_input, scan_calls,
          device_available, thread_pc, thread_func, lock_calls,
          window_log, registers, io_call, io_result, cmd_id, cmd_reply, try_close,
          log_close, workers, active_pids, close_event>>

(***************************************************************************)
(* Bounds of the model                                                     *)
(***************************************************************************)
MaxRows == 2
MaxSamples == 3
MaxKernelCalls == 2

(***************************************************************************)
(* Program constants                                                       *)
(***************************************************************************)
EdgeTolerance == 6
MinSkipSigmas == 3
DefaultSkipSigmas == 6
AreaUnitScale == 100
elementary_charge == 1

(***************************************************************************)
(* Arithmetic helpers                                                      *)
(***************************************************************************)
Abs(a) == IF a < 0 THEN -a ELSE a

Min(a, b) == IF a < b THEN a ELSE b

Div(a, b) == IF a >= 0 THEN a \div b ELSE -((-a) \div b)

RECURSIVE IsqrtSearch(_, _, _)
IsqrtSearch(n, lo, hi) ==
    IF lo >= hi THEN lo
    ELSE LET mid == (lo + hi + 1) \div 2
         IN  IF mid * mid <= n THEN IsqrtSearch(n, mid, hi)
                               ELSE IsqrtSearch(n, lo, mid - 1)

Sqrt(n) == IsqrtSearch(n, 0, Min(n, 46340))

RECURSIVE SeqSum(_)
SeqSum(s) == IF s = <<>> THEN 0 ELSE Head(s) + SeqSum(Tail(s))

Reverse(s) == [k \in 1..Len(s) |-> s[Len(s) + 1 - k]]

Column(table, field) == [k \in 1..Len(table) |-> table[k][field]]

np_cumsum(s) == [k \in 1..Len(s) |-> SeqSum(SubSeq(s, 1, k))]

np_std(s) ==
    LET n    == Len(s)
        mean == Div(SeqSum(s), n)
        sq   == [k \in 1..n |-> (s[k] - mean) * (s[k] - mean)]
    IN  Sqrt(Div(SeqSum(sq), n))

searchsorted_left(a, v) == Cardinality({k \in 1..Len(a) : a[k] < v})

searchsorted_right(a, v) == Cardinality({k \in 1..Len(a) : a[k] <= v})

np_linspace(stop, num) == [k \in 1..num |-> ((k - 1) * stop) \div (num - 1)]

\* mutant: the lower edge of a bin is taken as its centre
BinCenters_LowerEdge(edges) == [k \in 1..(Len(edges) - 1) |-> edges[k]]

BinCenters(edges) == [k \in 1..(Len(edges) - 1) |-> (edges[k] + edges[k + 1]) \div 2]

np_interp_at(x, xp, fp) ==
    LET n == Len(xp)
    IN  IF x <= xp[1] THEN fp[1]
        ELSE IF x >= xp[n] THEN fp[n]
        ELSE LET j == searchsorted_right(xp, x)
             IN  fp[j] + Div((fp[j + 1] - fp[j]) * (x - xp[j]), xp[j + 1] - xp[j])

np_interp(x, xp, fp) == [k \in 1..Len(x) |-> np_interp_at(x[k], xp, fp)]

(***************************************************************************)
(* gauss_2d_pdf / gauss_2d_norm                                            *)
(***************************************************************************)
\* 1000 * exp(-k/4), k = 0..30; below 1/2000 from k = 31 on
ExpTable == <<1000, 779, 607, 472, 368, 287, 223, 174, 135, 105, 82, 64, 50, 39,
              30, 24, 18, 14, 11, 9, 7, 5, 4, 3, 2, 2, 2, 1, 1, 1, 1>>

\* 1000 * exp(-0.5 * (((x - mu_x)/sigma_x)^2 + ((y - mu_y)/sigma_y)^2))
ExpMilli(x, y, mu_x, mu_y, sigma_x, sigma_y) ==
    LET k == (2 * (x - mu_x) * (x - mu_x)) \div (sigma_x * sigma_x)
           + (2 * (y - mu_y) * (y - mu_y)) \div (sigma_y * sigma_y)
    IN  IF k + 1 > Len(ExpTable) THEN 0 ELSE ExpTable[k + 1]

\* mutant: the factor 2 pi is left out
gauss_2d_norm_NoTwoPi(amplitude, sigma_x, sigma_y) ==
    Div(amplitude * 1000, sigma_x * sigma_y)

\* 1000 * amplitude / (2 pi sigma_x sigma_y)
gauss_2d_norm(amplitude, sigma_x, sigma_y) ==
    Div(amplitude * 1000, (6283 * sigma_x * sigma_y) \div 1000)

\* mutant: the amplitude is divided by 2 pi sigma_x sigma_y when normalized is True
gauss_2d_pdf_NormalizeIfTrue(x, y, mu_x, mu_y, sigma_x, sigma_y, amplitude, normalized) ==
    LET norm_amplitude == IF normalized THEN gauss_2d_norm(amplitude, sigma_x, sigma_y)
                          ELSE amplitude * 1000
    IN  Div(norm_amplitude * ExpMilli(x, y, mu_x, mu_y, sigma_x, sigma_y), 1000)

\* normalized says that the amplitude passed in is normalized already (line 201)
gauss_2d_pdf(x, y, mu_x, mu_y, sigma_x, sigma_y, amplitude, normalized) ==
    LET norm_amplitude == IF normalized THEN amplitude * 1000
                          ELSE gauss_2d_norm(amplitude, sigma_x, sigma_y)
    IN  Div(norm_amplitude * ExpMilli(x, y, mu_x, mu_y, sigma_x, sigma_y), 1000)

(***************************************************************************)
(* apply_gauss_2d_kernel                                                   *)
(***************************************************************************)
\* mutant: the minimum itself is rejected as well
SkipSigmasTooSmall_OffByOne(skip_sigmas) == skip_sigmas <= MinSkipSigmas

SkipSigmasTooSmall(skip_sigmas) == skip_sigmas < MinSkipSigmas

\* mutant: a cell exactly skip_sigmas sigmas away is skipped too
KernelSkips_AtLimit(coord, mu, skip_sigmas, sigma) == Abs(coord - mu) >= skip_sigmas * sigma

\* the two "continue" tests: the cell is further than skip_sigmas sigmas away
KernelSkips(coord, mu, skip_sigmas, sigma) == Abs(coord - mu) > skip_sigmas * sigma

\* mutant: the variance grid receives the amplitude itself
ErrorAmplitudeSquared_Amplitude(amplitude, amplitude_error) == amplitude

\* line 292: error_amplitude_squared = amplitude_error ** 2
ErrorAmplitudeSquared(amplitude, amplitude_error) == amplitude_error * amplitude_error

apply_gauss_2d_kernel(map_2d, map_2d_error, amplitude, amplitude_error, bin_centers_x, bin_centers_y, mu_x, mu_y, sigma_x, sigma_y, normalized, skip_sigmas) ==
    IF SkipSigmasTooSmall(skip_sigmas)
    THEN [error |-> "Minimum of skip_sigmas is 3", map_2d |-> map_2d,
          map_2d_error |-> map_2d_error, touched |-> {}]
    ELSE LET error_amplitude_squared == ErrorAmplitudeSquared(amplitude, amplitude_error)
             hit(j, i) == /\ ~KernelSkips(bin_centers_y[j], mu_y, skip_sigmas, sigma_y)
                          /\ ~KernelSkips(bin_centers_x[i], mu_x, skip_sigmas, sigma_x)
             pdf(j, i, a) == gauss_2d_pdf(bin_centers_x[i], bin_centers_y[j], mu_x, mu_y,
                                          sigma_x, sigma_y, a, normalized)
         IN  [error |-> "none",
              map_2d |-> [j \in DOMAIN map_2d |-> [i \in DOMAIN map_2d[j] |->
                             IF hit(j, i) THEN map_2d[j][i] + pdf(j, i, amplitude)
                                          ELSE map_2d[j][i]]],
              map_2d_error |-> [j \in DOMAIN map_2d |-> [i \in DOMAIN map_2d[j] |->
                             IF hit(j, i)
                             THEN map_2d_error[j][i] + pdf(j, i, error_amplitude_squared)
                             ELSE map_2d_error[j][i]]],
              touched |-> {c \in (DOMAIN map_2d) \X (DOMAIN map_2d[1]) : hit(c[1], c[2])}]

\* the kernel loops of _process_row_wait and _process_row_scan: one call per
\* entry of deps, in order, with normalized=False and the default skip_sigmas
RECURSIVE ApplyDeposits(_, _, _, _, _, _)
ApplyDeposits(map_2d, map_2d_error, deps, bin_centers_x, bin_centers_y, beam_sigma) ==
    IF deps = <<>>
    THEN [error |-> "none", map_2d |-> map_2d, map_2d_error |-> map_2d_error]
    ELSE LET d == Head(deps)
             r == apply_gauss_2d_kernel(map_2d, map_2d_error, d.amplitude,
                                        d.amplitude_error, bin_centers_x, bin_centers_y,
                                        d.mu_x, d.mu_y, beam_sigma[1], beam_sigma[2],
                                        FALSE, DefaultSkipSigmas)
         IN  IF r.error # "none"
             THEN [error |-> r.error, map_2d |-> r.map_2d, map_2d_error |-> r.map_2d_error]
             ELSE ApplyDeposits(r.map_2d, r.map_2d_error, Tail(deps),
                                bin_centers_x, bin_centers_y, beam_sigma)

(***************************************************************************)
(* _calc_bin_transit_times                                                 *)
(***************************************************************************)
\* ((2 s a + v0^2)^0.5 - v0) / a in ticks, v0 in 1/100 units/s
RampTime(bin_size, scan_accel, current_speed) ==
    (Sqrt(2 * bin_size * scan_accel * 10000 + current_speed * current_speed)
        - current_speed) \div scan_accel

RECURSIVE RampLoop(_, _, _, _, _, _)
RampLoop(bin_transit_times, bin_sizes, scan_accel, current_speed, i, idx) ==
    IF i >= idx THEN bin_transit_times
    ELSE LET n  == Len(bin_transit_times)
             t1 == [bin_transit_times EXCEPT
                        ![i + 1] = RampTime(bin_sizes[i + 1], scan_accel, current_speed)]
             t2 == [t1 EXCEPT
                        ![n - i] = RampTime(bin_sizes[n - i], scan_accel, current_speed)]
         IN  RampLoop(t2, bin_sizes, scan_accel,
                      current_speed + scan_accel * t2[i + 1], i + 1, idx)

\* np.searchsorted(bin_edges, de_accel_dist), de_accel_dist = v^2 / (2 a)
RampIdx(bin_edges, scan_speed, scan_accel) ==
    Cardinality({k \in 1..Len(bin_edges) :
                    2 * scan_accel * bin_edges[k] < scan_speed * scan_speed})

_calc_bin_transit_times(bin_transit_times, bin_edges, scan_speed, scan_accel) ==
    LET n         == Len(bin_transit_times)
        bin_sizes == [k \in 1..(Len(bin_edges) - 1) |-> bin_edges[k + 1] - bin_edges[k]]
        idx       == RampIdx(bin_edges, scan_speed, scan_accel)
        const     == [k \in 1..n |->
                        IF idx >= 1 /\ idx < k /\ k <= n - idx
                        THEN Div(bin_sizes[k] * 100, scan_speed)
                        ELSE bin_transit_times[k]]
        \* the code's indices (0-based, negative ones resolved) read or written
        accessed  == {k - 1 : k \in {k \in 1..n : idx >= 1 /\ idx < k /\ k <= n - idx}}
                         \cup UNION {{i, n - 1 - i} : i \in 0..(idx - 1)}
    IN  \* idx > n: iteration i = n of the loop indexes past both arrays, which
        \* njit does not check; the iterations before it have filled the buffer
        [out_of_bounds |-> idx > n,
         times |-> RampLoop(const, bin_sizes, scan_accel, 0, 0, Min(idx, n)),
         assigned |-> accessed \cap 0..(n - 1),
         accessed |-> accessed]

(***************************************************************************)
(* _process_row_wait, _process_row_scan, _process_row                      *)
(***************************************************************************)
\* mutant: the row window opens after the samples stamped row_start_timestamp
RowStartIdx_SideRight(timestamps, row_start_timestamp) ==
    searchsorted_right(timestamps, row_start_timestamp)

\* row_start_idx and row_stop_idx of the slice that starts at the cursor
RowStartIdx(timestamps, row_start_timestamp) ==
    searchsorted_left(timestamps, row_start_timestamp)

RowStopIdx(timestamps, row_stop_timestamp) ==
    searchsorted_right(timestamps, row_stop_timestamp)

\* mutant: the wait pass is not guarded by the cursor
NotFirstRow_Unguarded(row_idx) == TRUE

\* "if current_row_idx > 0": how the code recognises a row that is not the first
NotFirstRow(row_idx) == row_idx > 0

\* mutant: the index within the slice is returned as the new cursor
NextRowIdx_SliceRelative(row_idx, row_stop_idx) == row_stop_idx

\* mutant: the cursor stops on the last sample of the row window
NextRowIdx_OnLastSample(row_idx, row_stop_idx) == row_idx + row_stop_idx - 1

\* the index _process_row returns
NextRowIdx(row_idx, row_stop_idx) == row_idx + row_stop_idx

\* mutant: a start exactly 0.5 mm off the edge is accepted
NearEdge_Inclusive(row_start_x, scan_area_edge_x) ==
    /\ scan_area_edge_x - EdgeTolerance <= row_start_x
    /\ row_start_x <= scan_area_edge_x + EdgeTolerance

\* mutant: the lower end of the 1 mm window is not tested
NearEdge_NoLowerBound(row_start_x, scan_area_edge_x) ==
    row_start_x < scan_area_edge_x + EdgeTolerance

NearEdge(row_start_x, scan_area_edge_x) ==
    /\ scan_area_edge_x - EdgeTolerance < row_start_x
    /\ row_start_x < scan_area_edge_x + EdgeTolerance

NeitherEdge == "Row started at neither edge of scan area"

\* mutant: the loop stops one interval early
WaitSteps_OneLess(n) == n - 2

\* "for i in range(wait_beam_data.shape[0] - 1)": the number of iterations
WaitSteps(n) == n - 1

_process_row_wait(row, wait_beam_data, map_2d, map_2d_error, map_bin_edges_x, map_bin_centers_x, map_bin_centers_y, beam_sigma, scan_y_offset, scan_area_start_x, scan_area_stop_x) ==
    LET wait_mu_y == row.row_start_y - scan_y_offset
        n         == Len(wait_beam_data)
        wait_mu_x == IF NearEdge(row.row_start_x, scan_area_start_x)
                     THEN map_bin_edges_x[1]
                     ELSE map_bin_edges_x[Len(map_bin_edges_x)]
        wait_ions_std == np_std(Column(wait_beam_data, "beam_current"))
        deps == [i \in 1..WaitSteps(n) |->
                   LET wait_interval == wait_beam_data[i + 1].timestamp
                                        - wait_beam_data[i].timestamp
                       wait_ions == Div(wait_beam_data[i].beam_current * wait_interval,
                                        elementary_charge)
                       e0 == Div(wait_beam_data[i].beam_current_error * wait_interval,
                                 elementary_charge)
                   IN  [pass |-> "wait", amplitude |-> wait_ions,
                        amplitude_error |-> Sqrt(e0 * e0 + wait_ions_std * wait_ions_std),
                        mu_x |-> wait_mu_x, mu_y |-> wait_mu_y]]
    IN  IF ~NearEdge(row.row_start_x, scan_area_start_x)
           /\ ~NearEdge(row.row_start_x, scan_area_stop_x)
        THEN [error |-> NeitherEdge, map_2d |-> map_2d, map_2d_error |-> map_2d_error,
              deposits |-> <<>>]
        ELSE LET r == ApplyDeposits(map_2d, map_2d_error, deps, map_bin_centers_x,
                                    map_bin_centers_y, beam_sigma)
             IN  [error |-> r.error, map_2d |-> r.map_2d,
                  map_2d_error |-> r.map_2d_error, deposits |-> deps]

EmptySamplePoints == "array of sample points is empty"

IndexOutOfBounds == "index out of bounds"

\* mutant: the whole idle time is put before the row
RowStartOverhead_OneSided(row, times) ==
    row.row_stop_timestamp - row.row_start_timestamp - SeqSum(times)

\* line 499: half of the time of the row that the bins do not account for
RowStartOverhead(row, times) ==
    Div(row.row_stop_timestamp - row.row_start_timestamp - SeqSum(times), 2)

\* mutant: the bin centres are never reversed
ScanBinCenters_NeverReversed(row_start_x, scan_area_start_x, centers) == centers

\* lines 521-525, for a row that starts near one of the two edges
ScanBinCenters(row_start_x, scan_area_start_x, centers) ==
    IF NearEdge(row_start_x, scan_area_start_x) THEN centers ELSE Reverse(centers)

_process_row_scan(row, row_beam_data, map_2d, map_2d_error, bin_transit_times, map_bin_edges_x, map_bin_centers_x, map_bin_centers_y, beam_sigma, scan_y_offset, scan_area_start_x, scan_area_stop_x) ==
    LET tt    == _calc_bin_transit_times(bin_transit_times, map_bin_edges_x,
                                         row.row_scan_speed, row.row_scan_accel)
        times == tt.times
        n     == Len(times)
        row_start_overhead == RowStartOverhead(row, times)
        actual_row_start_timestamp == row.row_start_timestamp + row_start_overhead
        cum   == np_cumsum(times)
        row_bin_center_timestamps ==
            [k \in 1..n |-> actual_row_start_timestamp + cum[k] - Div(times[k], 2)]
        xp    == Column(row_beam_data, "timestamp")
        row_bin_center_currents ==
            np_interp(row_bin_center_timestamps, xp, Column(row_beam_data, "beam_current"))
        row_bin_center_current_errors ==
            np_interp(row_bin_center_timestamps, xp,
                      Column(row_beam_data, "beam_current_error"))
        row_bin_center_ions ==
            [k \in 1..n |-> Div(row_bin_center_currents[k] * times[k], elementary_charge)]
        ions_std == np_std(row_bin_center_ions)
        row_bin_center_ion_errors ==
            [k \in 1..n |->
                LET e0 == Div(row_bin_center_current_errors[k] * times[k],
                              elementary_charge)
                IN  Sqrt(e0 * e0 + ions_std * ions_std)]
        mu_y  == row.row_start_y - scan_y_offset
        x_bin_centers == ScanBinCenters(row.row_start_x, scan_area_start_x,
                                        map_bin_centers_x)
        deps  == [k \in 1..n |->
                    [pass |-> "scan", amplitude |-> row_bin_center_ions[k],
                     amplitude_error |-> row_bin_center_ion_errors[k],
                     mu_x |-> x_bin_centers[k], mu_y |-> mu_y]]
        fail(msg) == [error |-> msg, map_2d |-> map_2d, map_2d_error |-> map_2d_error,
                      times |-> times, deposits |-> <<>>,
                      row_start_overhead |-> row_start_overhead]
    IN  IF tt.out_of_bounds THEN fail(IndexOutOfBounds)
        ELSE IF row_beam_data = <<>> THEN fail(EmptySamplePoints)
        ELSE IF ~NearEdge(row.row_start_x, scan_area_start_x)
                /\ ~NearEdge(row.row_start_x, scan_area_stop_x)
        THEN fail(NeitherEdge)
        ELSE LET r == ApplyDeposits(map_2d, map_2d_error, deps, map_bin_centers_x,
                                    map_bin_centers_y, beam_sigma)
             IN  [error |-> r.error, map_2d |-> r.map_2d,
                  map_2d_error |-> r.map_2d_error, times |-> times, deposits |-> deps,
                  row_start_overhead |-> row_start_overhead]

_process_row(row, beam, map_2d, map_2d_error, bin_transit_times, map_bin_edges_x, map_bin_centers_x, map_bin_centers_y, beam_sigma, scan_y_offset, row_idx, scan_area_start_x, scan_area_stop_x) ==
    LET current_beam_data == SubSeq(beam, row_idx + 1, Len(beam))
        ts            == Column(current_beam_data, "timestamp")
        row_start_idx == RowStartIdx(ts, row.row_start_timestamp)
        row_stop_idx  == RowStopIdx(ts, row.row_stop_timestamp)
        row_beam_data == SubSeq(current_beam_data, row_start_idx + 1, row_stop_idx)
        wait_beam_data == SubSeq(current_beam_data, 1, row_start_idx)
        do_wait == NotFirstRow(row_idx) /\ Len(wait_beam_data) > 0
        w == IF do_wait
             THEN _process_row_wait(row, wait_beam_data, map_2d, map_2d_error,
                                    map_bin_edges_x, map_bin_centers_x, map_bin_centers_y,
                                    beam_sigma, scan_y_offset, scan_area_start_x,
                                    scan_area_stop_x)
             ELSE [error |-> "none", map_2d |-> map_2d, map_2d_error |-> map_2d_error,
                   deposits |-> <<>>]
        s == _process_row_scan(row, row_beam_data, w.map_2d, w.map_2d_error,
                               bin_transit_times, map_bin_edges_x, map_bin_centers_x,
                               map_bin_centers_y, beam_sigma, scan_y_offset,
                               scan_area_start_x, scan_area_stop_x)
        windows == [row_window  |-> (row_idx + row_start_idx + 1)..(row_idx + row_stop_idx),
                    wait_window |-> (row_idx + 1)..(row_idx + row_start_idx),
                    wait_ran    |-> do_wait]
    IN  IF w.error # "none"
        THEN windows @@ [error |-> w.error, map_2d |-> w.map_2d,
                         map_2d_error |-> w.map_2d_error, times |-> bin_transit_times,
                         deposits |-> w.deposits, next_idx |-> row_idx]
        ELSE windows @@ [error |-> s.error, map_2d |-> s.map_2d,
                         map_2d_error |-> s.map_2d_error, times |-> s.times,
                         deposits |-> w.deposits \o s.deposits,
                         next_idx |-> IF s.error = "none"
                                      THEN NextRowIdx(row_idx, row_stop_idx)
                                      ELSE row_idx]

(***************************************************************************)
(* generate_fluence_map                                                    *)
(***************************************************************************)
bins == <<2, 3>>

beam_sigma(irrad) == <<(irrad.beam_fwhm_x * 10000) \div 23548,
                       (irrad.beam_fwhm_y * 10000) \div 23548>>

map_bin_edges_y(irrad) ==
    np_linspace(Abs(irrad.scan_area_start_y - irrad.scan_area_stop_y), bins[1] + 1)

map_bin_edges_x(irrad) ==
    np_linspace(Abs(irrad.scan_area_stop_x - irrad.scan_area_start_x), bins[2] + 1)

map_bin_centers_y(irrad) == BinCenters(map_bin_edges_y(irrad))

map_bin_centers_x(irrad) == BinCenters(map_bin_edges_x(irrad))

ZeroMap == [j \in 1..bins[1] |-> [i \in 1..bins[2] |-> 0]]

ZeroTimes == [i \in 1..bins[2] |-> 0]

\* mutant: the loop is left after its first row
LoopDone_AfterFirstRow == rows_done >= 1

\* the for loop over scan_data has run out of rows
LoopDone == rows_done = n_scan_rows

\* mutant: the exception of a row is swallowed and the loop goes on
AfterRow_Swallow(row_error) == "loop"

\* no try/except around _process_row: an exception leaves generate_fluence_map
AfterRow(row_error) == IF row_error = "none" THEN "loop" ELSE "raised"

NoRow == [row_start_x |-> 0, row_start_y |-> 0, row_start_timestamp |-> 0,
          row_stop_timestamp |-> 0, row_scan_speed |-> 0, row_scan_accel |-> 0]

NoKernelCall == [n |-> 0]

NoDutCall == [n |-> 0]

NoDutResult == [error |-> "none", index_computed |-> FALSE]

NoTransitCall == [n |-> 0]

NoTransitResult == [outcome |-> "none", assigned |-> {}, accessed |-> {}]

kernel_vars == <<kernel_call, kernel_before, touched>>

\* state of the calls made outside generate_fluence_map
lock_vars == <<device_available, thread_pc, thread_func, lock_calls>>

\* state of the TCA9555 registers and of the operator interface
device_vars == <<registers, io_call, io_result>>

gui_vars == <<cmd_id, cmd_reply, try_close, log_close, workers, active_pids, close_event>>

side_vars == <<device_vars, gui_vars>>

other_vars == <<dut_call, dut_result, transit_call, transit_result, scan_input,
                scan_calls, lock_vars, side_vars>>

\* mutant: the unit factor is applied twice
ToPerCm2_Twice(v) == v * AreaUnitScale * AreaUnitScale

\* ions / mm^2 to ions / cm^2
ToPerCm2(v) == v * AreaUnitScale

input_vars == <<beam_data, irrad_data, n_scan_rows>>

row_history == <<row_data, call_row_idx, row_window, wait_window, wait_ran, deposits,
                 window_log>>

\* one iteration of the loop at lines 70-84
ProcessRow(row) ==
    /\ pc = "loop"
    /\ ~LoopDone
    /\ \E r \in {_process_row(row, beam_data, fluence_map, fluence_map_error,
                             row_bin_transit_times, map_bin_edges_x(irrad_data),
                             map_bin_centers_x(irrad_data), map_bin_centers_y(irrad_data),
                             beam_sigma(irrad_data), irrad_data.scan_area_start_y,
                             current_row_idx, irrad_data.scan_area_start_x,
                             irrad_data.scan_area_stop_x)} :
           /\ row_data' = row
           /\ rows_done' = rows_done + 1
           /\ call_row_idx' = current_row_idx
           /\ current_row_idx' = r.next_idx
           /\ fluence_map' = r.map_2d
           /\ fluence_map_error' = r.map_2d_error
           /\ row_bin_transit_times' = r.times
           /\ row_window' = r.row_window
           /\ wait_window' = r.wait_window
           /\ wait_ran' = r.wait_ran
           /\ deposits' = r.deposits
           /\ window_log' = Append(window_log, [row |-> row, row_window |-> r.row_window,
                                                 wait_window |-> r.wait_window])
           /\ error' = r.error
           /\ pc' = AfterRow(r.error)
    /\ UNCHANGED <<input_vars, finalize_count, kernel_vars, unscaled, other_vars>>

\* lines 88-95: sqrt of the variance grid, both grids times 100, return
Finalize ==
    /\ pc = "loop"
    /\ LoopDone
    /\ fluence_map_error' = [j \in DOMAIN fluence_map_error |->
                                [i \in DOMAIN fluence_map_error[j] |->
                                    ToPerCm2(Sqrt(fluence_map_error[j][i]))]]
    /\ fluence_map' = [j \in DOMAIN fluence_map |->
                          [i \in DOMAIN fluence_map[j] |->
                              ToPerCm2(fluence_map[j][i])]]
    /\ unscaled' = <<fluence_map, fluence_map_error>>
    /\ finalize_count' = finalize_count + 1
    /\ pc' = "returned"
    /\ UNCHANGED <<input_vars, rows_done, current_row_idx, row_bin_transit_times, error,
                   row_history, kernel_vars, other_vars>>

(***************************************************************************)
(* Inputs of the reconstruction                                            *)
(***************************************************************************)
Timestamps == {0, 100, 200}

\* time-ordered sample tables of up to MaxSamples samples
BeamTables ==
    UNION {{[k \in 1..n |-> [timestamp |-> t[k], beam_current |-> 2 + k,
                             beam_current_error |-> 1]] :
              t \in {u \in [1..n -> Timestamps] :
                        \A k \in 1..(n - 1) : u[k] <= u[k + 1]}} :
           n \in 0..MaxSamples}

Area(start_x, stop_x) ==
    [scan_area_start_x |-> start_x, scan_area_stop_x |-> stop_x,
     scan_area_start_y |-> 24, scan_area_stop_y |-> 48,
     beam_fwhm_x |-> 15, beam_fwhm_y |-> 15]

\* a 3 mm wide and a 0.5 mm wide scan area
Areas == {Area(12, 48), Area(12, 18)}

ScanAreaMidX(irrad) == (irrad.scan_area_start_x + irrad.scan_area_stop_x) \div 2

StartXChoices(irrad) ==
    {irrad.scan_area_start_x, irrad.scan_area_start_x + 3,
     irrad.scan_area_start_x + EdgeTolerance, ScanAreaMidX(irrad),
     irrad.scan_area_stop_x - EdgeTolerance, irrad.scan_area_stop_x - 3,
     irrad.scan_area_stop_x}

RowPool(irrad) ==
    {[row_start_x |-> x, row_start_y |-> irrad.scan_area_start_y + 6,
      row_start_timestamp |-> a, row_stop_timestamp |-> b,
      row_scan_speed |-> 24, row_scan_accel |-> 48] :
        x \in StartXChoices(irrad), a \in Timestamps, b \in Timestamps}

InitRows ==
    /\ row_data = NoRow
    /\ rows_done = 0
    /\ current_row_idx = 0
    /\ error = "none"
    /\ finalize_count = 0
    /\ call_row_idx = 0
    /\ row_window = {}
    /\ wait_window = {}
    /\ wait_ran = FALSE
    /\ deposits = <<>>
    /\ window_log = <<>>

\* lines 50-51 and 64: both grids and the transit-time buffer start at zero
InitMaps ==
    /\ fluence_map = ZeroMap
    /\ fluence_map_error = ZeroMap
    /\ row_bin_transit_times = ZeroTimes
    /\ kernel_call = NoKernelCall
    /\ kernel_before = <<ZeroMap, ZeroMap>>
    /\ touched = {}
    /\ unscaled = <<ZeroMap, ZeroMap>>

InitDut ==
    /\ dut_call = NoDutCall
    /\ dut_result = NoDutResult

InitTransit ==
    /\ transit_call = NoTransitCall
    /\ transit_result = NoTransitResult

NoScanInput == [n |-> 0]

\* number of threads that share one TCA9555 instance
NumThreads == 2

Threads == 1..NumThreads

\* TCA9555.__init__, lines 93-95: the Event is created and set
InitLock ==
    /\ device_available = TRUE
    /\ thread_pc = [t \in Threads |-> "idle"]
    /\ thread_func = [t \in Threads |-> "none"]
    /\ lock_calls = 0

\* TCA9555.regs, lines 54-63: the registers, each of n_ports = 2 bytes
regs == {"input", "output", "polarity", "config"}

\* the contents of a device nobody has written to: all pins are inputs
PowerOnRegisters == [r \in regs |-> IF r = "config" THEN <<255, 255>> ELSE <<0, 0>>]

NoIoCall == [n |-> 0, method |-> "none"]

NoIoResult == [error |-> "none"]

InitDevice ==
    /\ registers = PowerOnRegisters
    /\ io_call = NoIoCall
    /\ io_result = NoIoResult

\* the hosts of a setup: one server and the interpreter on localhost
Servers == {"server1"}

Hosts == Servers \cup {"localhost"}

NoCloseEvent == [n |-> 0, outcome |-> "none", cleaned_up |-> FALSE, pending |-> {},
                 active |-> {}]

\* IrradGUI.__init__, lines 59-63; no process is registered yet
InitGui ==
    /\ cmd_id = 0
    /\ cmd_reply = [h \in Hosts |-> <<>>]
    /\ try_close = FALSE
    /\ log_close = FALSE
    /\ workers = <<>>
    /\ active_pids = [h \in Hosts |-> "none"]
    /\ close_event = NoCloseEvent

InitSide ==
    /\ InitDevice
    /\ InitGui

InitScan ==
    /\ scan_input = NoScanInput
    /\ scan_calls = <<>>

InitLocals ==
    /\ InitRows
    /\ InitMaps
    /\ InitScan
    /\ InitLock
    /\ InitSide
    /\ InitDut
    /\ InitTransit

\* scan_data holds at least one row: np.max at line 37 raises on an empty table
Init ==
    /\ beam_data \in BeamTables
    /\ irrad_data \in Areas
    /\ n_scan_rows \in 1..MaxRows
    /\ pc = "loop"
    /\ InitLocals

ProcessAnyRow == \E row \in RowPool(irrad_data) : ProcessRow(row)

Next ==
    \/ ProcessAnyRow
    \/ Finalize

Spec == Init /\ [][Next]_vars

(***************************************************************************)
(* Reconstructions of one row over scan areas of any extent                *)
(***************************************************************************)
\* the scan areas of Areas, one of no width and one whose stop edge lies
\* left of its start edge
GridAreas == Areas \cup {Area(12, 12), Area(48, 12)}

InitGrid ==
    /\ beam_data \in BeamTables
    /\ irrad_data \in GridAreas
    /\ n_scan_rows = 1
    /\ pc = "loop"
    /\ InitLocals

SpecGrid == InitGrid /\ [][Next]_vars

(***************************************************************************)
(* Reconstructions from beam currents and current errors of either sign    *)
(***************************************************************************)
\* every current and every error negated
Negated(beam) ==
    [k \in DOMAIN beam |-> [timestamp |-> beam[k].timestamp,
                            beam_current |-> -beam[k].beam_current,
                            beam_current_error |-> -beam[k].beam_current_error]]

\* currents of alternating sign with negative errors
Alternating(beam) ==
    [k \in DOMAIN beam |-> [timestamp |-> beam[k].timestamp,
                            beam_current |-> IF k % 2 = 0 THEN beam[k].beam_current
                                             ELSE -beam[k].beam_current,
                            beam_current_error |-> -beam[k].beam_current_error]]

SignedBeamTables ==
    {Negated(b) : b \in BeamTables} \cup {Alternating(b) : b \in BeamTables}

InitSigned ==
    /\ beam_data \in SignedBeamTables
    /\ irrad_data = Area(12, 48)
    /\ n_scan_rows \in 1..MaxRows
    /\ pc = "loop"
    /\ InitLocals

\* rows that start on an edge of the scan area
ProcessEdgeRow ==
    \E row \in {r \in RowPool(irrad_data) :
                   r.row_start_x \in {irrad_data.scan_area_start_x,
                                      irrad_data.scan_area_stop_x}} :
        ProcessRow(row)

NextSigned ==
    \/ ProcessEdgeRow
    \/ Finalize

SpecSigned == InitSigned /\ [][NextSigned]_vars

(***************************************************************************)
(* Direct calls of apply_gauss_2d_kernel on one pair of grids              *)
(***************************************************************************)
KernelCall(amplitude, amplitude_error, mu_x, mu_y, sigma, normalized, skip_sigmas) ==
    /\ pc = "kernel"
    /\ kernel_call.n < MaxKernelCalls
    /\ \E r \in {apply_gauss_2d_kernel(fluence_map, fluence_map_error, amplitude,
                                       amplitude_error, map_bin_centers_x(irrad_data),
                                       map_bin_centers_y(irrad_data), mu_x, mu_y,
                                       sigma, sigma, normalized, skip_sigmas)} :
           /\ fluence_map' = r.map_2d
           /\ fluence_map_error' = r.map_2d_error
           /\ touched' = r.touched
           /\ error' = r.error
    /\ kernel_before' = <<fluence_map, fluence_map_error>>
    /\ kernel_call' = [n |-> kernel_call.n + 1, amplitude |-> amplitude,
                       amplitude_error |-> amplitude_error, mu_x |-> mu_x, mu_y |-> mu_y,
                       sigma_x |-> sigma, sigma_y |-> sigma, normalized |-> normalized,
                       skip_sigmas |-> skip_sigmas]
    /\ UNCHANGED <<input_vars, rows_done, current_row_idx, row_bin_transit_times, pc,
                   finalize_count, row_history, unscaled, other_vars>>

InitKernel ==
    /\ beam_data = <<>>
    /\ irrad_data = Area(12, 48)
    /\ n_scan_rows = 0
    /\ pc = "kernel"
    /\ InitLocals

NextKernel ==
    \E amplitude \in {0, 500}, mu_x \in {6, 18}, sigma \in {2, 4},
       normalized \in BOOLEAN, skip_sigmas \in {2, 3, 4} :
        KernelCall(amplitude, 3, mu_x, 6, sigma, normalized, skip_sigmas)

SpecKernel == InitKernel /\ [][NextKernel]_vars

(***************************************************************************)
(* extract_dut_map                                                         *)
(***************************************************************************)
\* an argument left at its default None, and one that was passed
None == [given |-> FALSE]

Given(v) == [given |-> TRUE, value |-> v]

MissingInputError == "Either *irrad_data* or a *dut_rectangle* has to be given"

CentredArityError == "*dut_rectangle* needs to be in the form of (x_width, y_width)"

ExplicitArityError == "*dut_rectangle needs to be in the form of (x_min, y_min, x_max, y_max)"

TupleIndexError == "tuple index out of range"

\* mutant: the call is refused as soon as one of the two is missing
MissingInput_Either(irrad, dut_rectangle) == ~irrad.given \/ ~dut_rectangle.given

\* line 135
MissingInput(irrad, dut_rectangle) == ~irrad.given /\ ~dut_rectangle.given

\* Python's a[lo:hi] for 0 <= lo, hi
Slice(a, lo, hi) == [k \in 1..(Min(hi, Len(a)) - Min(lo, Min(hi, Len(a)))) |-> a[lo + k]]

\* line 145; dr[0] and dr[1] are dr[1] and dr[2] here
get_dut_rect(sax, say, dr) ==
    <<Div(sax - dr[1], 2), Div(say - dr[2], 2), Div(sax + dr[1], 2), Div(say + dr[2], 2)>>

\* lines 148-162: the rectangle the indices are computed from, or the error raised
DutRectangle(irrad, dut_rectangle, center_symm, scan_area_x, scan_area_y) ==
    IF irrad.given
    THEN [error |-> "none",
          rect |-> <<irrad.value.dut_rect_start_x - irrad.value.scan_area_start_x,
                     irrad.value.dut_rect_start_y - irrad.value.scan_area_start_y,
                     irrad.value.dut_rect_stop_x - irrad.value.scan_area_start_x,
                     irrad.value.dut_rect_stop_y - irrad.value.scan_area_start_y>>]
    ELSE IF center_symm /\ Len(dut_rectangle.value) # 2
    THEN [error |-> CentredArityError, rect |-> <<>>]
    ELSE IF Len(dut_rectangle.value) < 2
    THEN [error |-> TupleIndexError, rect |-> <<>>]
    ELSE LET replaced == get_dut_rect(scan_area_x, scan_area_y, dut_rectangle.value)
         IN  IF ~center_symm /\ Len(replaced) # 4
             THEN [error |-> ExplicitArityError, rect |-> <<>>]
             ELSE [error |-> "none", rect |-> replaced]

extract_dut_map(map_2d, bin_centers_x, bin_centers_y, irrad, dut_rectangle, center_symm) ==
    LET raise(e) == [error |-> e, index_computed |-> FALSE]
        scan_area_x == bin_centers_x[Len(bin_centers_x)]
                           + Div(bin_centers_x[2] - bin_centers_x[1], 2)
        scan_area_y == bin_centers_y[Len(bin_centers_y)]
                           + Div(bin_centers_y[2] - bin_centers_y[1], 2)
        edges_x == np_linspace(scan_area_x, Len(bin_centers_x) + 1)
        edges_y == np_linspace(scan_area_y, Len(bin_centers_y) + 1)
    IN  IF MissingInput(irrad, dut_rectangle)
        THEN raise(MissingInputError)
        ELSE LET d == DutRectangle(irrad, dut_rectangle, center_symm,
                                   scan_area_x, scan_area_y)
                 n == Len(d.rect)
                 x_min_idx == searchsorted_left(edges_x, d.rect[1])
                 x_max_idx == searchsorted_right(edges_x, d.rect[n - 1])
                 y_min_idx == searchsorted_left(edges_y, d.rect[2])
                 y_max_idx == searchsorted_right(edges_y, d.rect[n])
                 rows == Slice(map_2d, y_min_idx, y_max_idx)
             IN  IF d.error # "none"
                 THEN raise(d.error)
                 ELSE [error |-> "none", index_computed |-> TRUE,
                       dut_rectangle |-> d.rect,
                       map_bin_edges_x |-> edges_x, map_bin_edges_y |-> edges_y,
                       x_min_idx |-> x_min_idx, x_max_idx |-> x_max_idx,
                       y_min_idx |-> y_min_idx, y_max_idx |-> y_max_idx,
                       dut_map |-> [j \in DOMAIN rows |->
                                       Slice(rows[j], x_min_idx, x_max_idx)],
                       dut_bins_x |-> Slice(bin_centers_x, x_min_idx, x_max_idx),
                       dut_bins_y |-> Slice(bin_centers_y, y_min_idx, y_max_idx)]

(***************************************************************************)
(* Calls of extract_dut_map on a finished map                              *)
(***************************************************************************)
MaxRectangleLen == 5

\* bin centres of a 4 x 3 and of a 3 x 3 map with 1 mm and 2/3 mm wide bins in x
DutGrids == {[centers_x |-> <<6, 18, 30, 42>>, centers_y |-> <<6, 18, 30>>],
             [centers_x |-> <<4, 12, 20>>, centers_y |-> <<6, 18, 30>>]}

\* a map of the grid's shape whose cells all differ
DutMap(g) == [j \in 1..Len(g.centers_y) |-> [i \in 1..Len(g.centers_x) |-> 10 * j + i]]

RectCoords == {0, 12, 16, 24}

DutRectangles == UNION {[1..n -> RectCoords] : n \in 0..MaxRectangleLen}

DutIrradData ==
    {[scan_area_start_x |-> 12, scan_area_start_y |-> 24,
      dut_rect_start_x |-> 12 + r[1], dut_rect_start_y |-> 24 + r[2],
      dut_rect_stop_x |-> 12 + r[3], dut_rect_stop_y |-> 24 + r[4]] :
        r \in [1..4 -> RectCoords]}

\* the arguments of one call: a rectangle, irrad_data (with or without a
\* rectangle next to it), or neither
DutCalls ==
    {[n |-> 0, grid |-> g, irrad_data |-> a[1], dut_rectangle |-> a[2], center_symm |-> c] :
        g \in DutGrids, c \in BOOLEAN,
        a \in ({<<None, Given(r)>> : r \in DutRectangles}
                   \cup {<<Given(i), None>> : i \in DutIrradData}
                   \cup {<<Given(i), Given(<<0, 0, 24, 24>>)>> : i \in DutIrradData}
                   \cup {<<None, None>>})}

ExtractCall ==
    /\ pc = "extract"
    /\ dut_call.n = 0
    /\ dut_call' = [dut_call EXCEPT !.n = 1]
    /\ dut_result' = extract_dut_map(DutMap(dut_call.grid), dut_call.grid.centers_x,
                                     dut_call.grid.centers_y, dut_call.irrad_data,
                                     dut_call.dut_rectangle, dut_call.center_symm)
    /\ UNCHANGED <<input_vars, rows_done, current_row_idx, fluence_map, fluence_map_error,
                   row_bin_transit_times, pc, error, finalize_count, row_history,
                   kernel_vars, unscaled, transit_call, transit_result, scan_input,
                   scan_calls, lock_vars, side_vars>>

InitExtract ==
    /\ beam_data = <<>>
    /\ irrad_data = Area(12, 48)
    /\ n_scan_rows = 0
    /\ pc = "extract"
    /\ InitRows
    /\ InitMaps
    /\ InitTransit
    /\ InitScan
    /\ InitLock
    /\ InitSide
    /\ dut_call \in DutCalls
    /\ dut_result = NoDutResult

NextExtract == ExtractCall

SpecExtract == InitExtract /\ [][NextExtract]_vars

(***************************************************************************)
(* Direct calls of _calc_bin_transit_times on one reused buffer            *)
(***************************************************************************)
MaxTransitCalls == 2

\* bin edges of a 3 mm row in 3 and in 4 bins, of a 0.5 mm row, and of a row
\* whose first edge is not the origin
TransitEdges == {<<0, 12, 24, 36>>, <<0, 9, 18, 27, 36>>, <<0, 2, 4, 6>>, <<12, 24, 36>>}

ScanSpeeds == {12, 24, 36, 48, 72}

ScanAccels == {24, 48, 96}

\* what an index past the arrays does: the interpreted function raises
\* IndexError, the compiled one does not check and goes on
TransitOutcomes(out_of_bounds) == IF out_of_bounds THEN {"IndexError", "unchecked"} ELSE {"ok"}

TransitCall(scan_speed, scan_accel) ==
    /\ pc = "transit"
    /\ transit_call.n < MaxTransitCalls
    /\ \E r \in {_calc_bin_transit_times(row_bin_transit_times, transit_call.bin_edges,
                                         scan_speed, scan_accel)} :
           /\ row_bin_transit_times' = r.times
           /\ \E o \in TransitOutcomes(r.out_of_bounds) :
                  transit_result' = [outcome |-> o, assigned |-> r.assigned,
                                     accessed |-> r.accessed]
    /\ transit_call' = [transit_call EXCEPT !.n = @ + 1, !.scan_speed = scan_speed,
                                            !.scan_accel = scan_accel]
    /\ UNCHANGED <<input_vars, rows_done, current_row_idx, fluence_map, fluence_map_error,
                   pc, error, finalize_count, row_history, kernel_vars, unscaled,
                   dut_call, dut_result, scan_input, scan_calls, lock_vars, side_vars>>

\* the buffer is np.zeros(len(edges) - 1) before the first row (line 64)
InitTransitCalls ==
    /\ beam_data = <<>>
    /\ irrad_data = Area(12, 48)
    /\ n_scan_rows = 0
    /\ pc = "transit"
    /\ InitRows
    /\ InitDut
    /\ InitScan
    /\ InitLock
    /\ InitSide
    /\ fluence_map = ZeroMap
    /\ fluence_map_error = ZeroMap
    /\ kernel_call = NoKernelCall
    /\ kernel_before = <<ZeroMap, ZeroMap>>
    /\ touched = {}
    /\ unscaled = <<ZeroMap, ZeroMap>>
    /\ \E e \in TransitEdges :
           /\ transit_call = [n |-> 0, bin_edges |-> e, scan_speed |-> 0, scan_accel |-> 0]
           /\ row_bin_transit_times = [k \in 1..(Len(e) - 1) |-> 0]
    /\ transit_result = NoTransitResult

NextTransit == \E scan_speed \in ScanSpeeds, scan_accel \in ScanAccels :
                   TransitCall(scan_speed, scan_accel)

SpecTransit == InitTransitCalls /\ [][NextTransit]_vars

(***************************************************************************)
(* Direct calls of _process_row_scan, each on empty grids                  *)
(***************************************************************************)
MaxScanCalls == 2

\* a 3 mm, a 0.5 mm and a 0.25 mm wide scan area
ScanAreas == {Area(12, 48), Area(12, 18), Area(12, 15)}

ScanStopTimestamps == {100, 190, 200}

\* rows that start at time 0 and whose ramp distance lies within the row
ScanRows(irrad) ==
    {[row_start_y |-> irrad.scan_area_start_y + 6, row_start_timestamp |-> 0,
      row_stop_timestamp |-> b, row_scan_speed |-> v[1], row_scan_accel |-> v[2]] :
        b \in ScanStopTimestamps,
        v \in {w \in {<<24, 48>>, <<12, 24>>} :
                  RampIdx(map_bin_edges_x(irrad), w[1], w[2]) <= bins[2]}}

\* the samples _process_row hands to the scan pass (lines 591-631)
RowBeamData(beam, row) ==
    SubSeq(beam, RowStartIdx(Column(beam, "timestamp"), row.row_start_timestamp) + 1,
           RowStopIdx(Column(beam, "timestamp"), row.row_stop_timestamp))

ScanStartX(irrad) ==
    {irrad.scan_area_start_x, ScanAreaMidX(irrad), irrad.scan_area_stop_x}

ScanCall(row_start_x) ==
    /\ pc = "scan"
    /\ Len(scan_calls) < MaxScanCalls
    /\ \E r \in {_process_row_scan(scan_input.row @@ [row_start_x |-> row_start_x],
                                   scan_input.row_beam_data, ZeroMap, ZeroMap, ZeroTimes,
                                   map_bin_edges_x(irrad_data),
                                   map_bin_centers_x(irrad_data),
                                   map_bin_centers_y(irrad_data), beam_sigma(irrad_data),
                                   irrad_data.scan_area_start_y,
                                   irrad_data.scan_area_start_x,
                                   irrad_data.scan_area_stop_x)} :
           scan_calls' = Append(scan_calls, r @@ [row_start_x |-> row_start_x])
    /\ UNCHANGED <<input_vars, rows_done, current_row_idx, fluence_map, fluence_map_error,
                   row_bin_transit_times, pc, error, finalize_count, row_history,
                   kernel_vars, unscaled, dut_call, dut_result, transit_call,
                   transit_result, scan_input, lock_vars, side_vars>>

InitScanCalls ==
    /\ beam_data \in BeamTables
    /\ irrad_data \in ScanAreas
    /\ n_scan_rows = 0
    /\ pc = "scan"
    /\ InitRows
    /\ InitMaps
    /\ InitDut
    /\ InitTransit
    /\ InitLock
    /\ InitSide
    /\ \E row \in ScanRows(irrad_data) :
           scan_input = [n |-> 1, row |-> row, row_beam_data |-> RowBeamData(beam_data, row)]
    /\ scan_calls = <<>>

NextScan == \E row_start_x \in ScanStartX(irrad_data) : ScanCall(row_start_x)

SpecScan == InitScanCalls /\ [][NextScan]_vars

(***************************************************************************)
(* One call of apply_gauss_2d_kernel on a grid that holds the whole kernel *)
(***************************************************************************)
\* bins per axis
MassBins == 9

\* bin width and beam sigma in units of 1/12 mm: 1 mm, 0.5 mm and 2 mm bins
\* with a sigma of one bin, and 1 mm bins with a sigma of half a bin
MassGeometries == {<<12, 12>>, <<6, 6>>, <<24, 24>>, <<12, 6>>}

MassCenters(bin_size) == BinCenters(np_linspace(MassBins * bin_size, MassBins + 1))

MassZeroMap == [j \in 1..MassBins |-> [i \in 1..MassBins |-> 0]]

\* kernels centred on one of the 3 x 3 innermost bin centres, at least three
\* sigma away from every border of the grid
MassCalls ==
    {[n |-> 0, bin_size |-> g[1], amplitude |-> a, amplitude_error |-> 3,
      mu_x |-> MassCenters(g[1])[i], mu_y |-> MassCenters(g[1])[j],
      sigma_x |-> g[2], sigma_y |-> g[2], normalized |-> FALSE, skip_sigmas |-> k] :
        g \in MassGeometries, a \in {5000, 10000}, i \in 4..6, j \in 4..6,
        k \in {DefaultSkipSigmas, 100}}

MassDeposit ==
    /\ pc = "mass"
    /\ kernel_call.n = 0
    /\ \E r \in {apply_gauss_2d_kernel(fluence_map, fluence_map_error,
                                       kernel_call.amplitude, kernel_call.amplitude_error,
                                       MassCenters(kernel_call.bin_size),
                                       MassCenters(kernel_call.bin_size),
                                       kernel_call.mu_x, kernel_call.mu_y,
                                       kernel_call.sigma_x, kernel_call.sigma_y,
                                       kernel_call.normalized, kernel_call.skip_sigmas)} :
           /\ fluence_map' = r.map_2d
           /\ fluence_map_error' = r.map_2d_error
           /\ touched' = r.touched
           /\ error' = r.error
    /\ kernel_before' = <<fluence_map, fluence_map_error>>
    /\ kernel_call' = [kernel_call EXCEPT !.n = 1]
    /\ UNCHANGED <<input_vars, rows_done, current_row_idx, row_bin_transit_times, pc,
                   finalize_count, row_history, unscaled, other_vars>>

InitMass ==
    /\ beam_data = <<>>
    /\ irrad_data = Area(12, 48)
    /\ n_scan_rows = 0
    /\ pc = "mass"
    /\ InitRows
    /\ InitDut
    /\ InitTransit
    /\ InitScan
    /\ InitLock
    /\ InitSide
    /\ fluence_map = MassZeroMap
    /\ fluence_map_error = MassZeroMap
    /\ row_bin_transit_times = ZeroTimes
    /\ kernel_call \in MassCalls
    /\ kernel_before = <<MassZeroMap, MassZeroMap>>
    /\ touched = {}
    /\ unscaled = <<MassZeroMap, MassZeroMap>>

NextMass == MassDeposit

SpecMass == InitMass /\ [][NextMass]_vars

(***************************************************************************)
(* TCA9555: threads calling methods decorated with _event_lock             *)
(* (src/irrad_control/devices/ic/TCA9555/tca9555.py)                       *)
(***************************************************************************)
MaxLockCalls == 3

\* some of the decorated IO methods
IoMethods == {"get_state", "set_state", "set_level"}

\* everything but the state of the TCA9555
fluence_vars == <<input_vars, rows_done, current_row_idx, fluence_map, fluence_map_error,
                  row_bin_transit_times, pc, error, finalize_count, row_history,
                  kernel_vars, unscaled, dut_call, dut_result, transit_call,
                  transit_result, scan_input, scan_calls, side_vars>>

\* a thread calls a decorated method and enters wrapper (line 16)
CallMethod(t, f) ==
    /\ pc = "threads"
    /\ thread_pc[t] = "idle"
    /\ lock_calls < MaxLockCalls
    /\ thread_pc' = [thread_pc EXCEPT ![t] = "wait"]
    /\ thread_func' = [thread_func EXCEPT ![t] = f]
    /\ lock_calls' = lock_calls + 1
    /\ UNCHANGED <<device_available, fluence_vars>>

\* line 19: _device_available.wait() returns once the Event is set
EventWait(t) ==
    /\ pc = "threads"
    /\ thread_pc[t] = "wait"
    /\ device_available
    /\ thread_pc' = [thread_pc EXCEPT ![t] = "clear"]
    /\ UNCHANGED <<device_available, thread_func, lock_calls, fluence_vars>>

\* line 22: _device_available.clear()
EventClear(t) ==
    /\ pc = "threads"
    /\ thread_pc[t] = "clear"
    /\ device_available' = FALSE
    /\ thread_pc' = [thread_pc EXCEPT ![t] = "io_func"]
    /\ UNCHANGED <<thread_func, lock_calls, fluence_vars>>

\* line 24: io_func returns
IoFuncReturns(t) ==
    /\ pc = "threads"
    /\ thread_pc[t] = "io_func"
    /\ thread_pc' = [thread_pc EXCEPT ![t] = "set"]
    /\ UNCHANGED <<device_available, thread_func, lock_calls, fluence_vars>>

\* line 24: io_func raises (a ValueError of _check_register or _check_bits, an
\* error of the serial interface); nothing catches it and line 27 is skipped
IoFuncRaises(t) ==
    /\ pc = "threads"
    /\ thread_pc[t] = "io_func"
    /\ thread_pc' = [thread_pc EXCEPT ![t] = "idle"]
    /\ UNCHANGED <<device_available, thread_func, lock_calls, fluence_vars>>

\* lines 27-29: _device_available.set() and return
EventSet(t) ==
    /\ pc = "threads"
    /\ thread_pc[t] = "set"
    /\ device_available' = TRUE
    /\ thread_pc' = [thread_pc EXCEPT ![t] = "idle"]
    /\ UNCHANGED <<thread_func, lock_calls, fluence_vars>>

InitThreads ==
    /\ beam_data = <<>>
    /\ irrad_data = Area(12, 48)
    /\ n_scan_rows = 0
    /\ pc = "threads"
    /\ InitRows
    /\ InitMaps
    /\ InitDut
    /\ InitTransit
    /\ InitScan
    /\ InitLock
    /\ InitSide

NextThreads ==
    \/ \E t \in Threads, f \in IoMethods : CallMethod(t, f)
    \/ \E t \in Threads : EventWait(t)
    \/ \E t \in Threads : EventClear(t)
    \/ \E t \in Threads : IoFuncReturns(t)
    \/ \E t \in Threads : IoFuncRaises(t)
    \/ \E t \in Threads : EventSet(t)

SpecThreads == InitThreads /\ [][NextThreads]_vars

(***************************************************************************)
(* Direct calls of _process_row_wait on empty grids: beam_data is the wait *)
(* slice the call receives                                                 *)
(***************************************************************************)
WaitCall(row) ==
    /\ pc = "wait"
    /\ rows_done = 0
    /\ \E r \in {_process_row_wait(row, beam_data, fluence_map, fluence_map_error,
                                  map_bin_edges_x(irrad_data),
                                  map_bin_centers_x(irrad_data),
                                  map_bin_centers_y(irrad_data), beam_sigma(irrad_data),
                                  irrad_data.scan_area_start_y,
                                  irrad_data.scan_area_start_x,
                                  irrad_data.scan_area_stop_x)} :
           /\ fluence_map' = r.map_2d
           /\ fluence_map_error' = r.map_2d_error
           /\ deposits' = r.deposits
           /\ error' = r.error
    /\ row_data' = row
    /\ rows_done' = 1
    /\ wait_window' = 1..Len(beam_data)
    /\ wait_ran' = TRUE
    /\ UNCHANGED <<input_vars, current_row_idx, row_bin_transit_times, pc, finalize_count,
                   call_row_idx, row_window, window_log, kernel_vars, unscaled,
                   other_vars>>

\* the wait pass is called with at least one sample (line 604)
InitWait ==
    /\ beam_data \in {b \in BeamTables : Len(b) >= 1}
    /\ irrad_data \in Areas
    /\ n_scan_rows = 1
    /\ pc = "wait"
    /\ InitLocals

NextWait ==
    \E row \in {r \in RowPool(irrad_data) : /\ r.row_start_timestamp = 200
                                           /\ r.row_stop_timestamp = 200} :
        WaitCall(row)

SpecWait == InitWait /\ [][NextWait]_vars

(***************************************************************************)
(* TCA9555: register states as bit strings                                 *)
(* (src/irrad_control/devices/ic/TCA9555/tca9555.py)                       *)
(* A state string is a sequence of the digits 0 and 1.                     *)
(***************************************************************************)
MaxIoCalls == 1

_n_io_bits == 16

_n_bits_per_port == 8

_n_ports == 2

\* what a method returns: a state string, or Python's None
PyStr(bits) == [type |-> "str", bits |-> bits]

PyNone == [type |-> "NoneType", bits |-> <<>>]

\* what a method call does: the exception or the value, the device afterwards
\* and the register writes in the order they were sent
Raised(exception, device, writes) ==
    [error |-> exception, value |-> PyNone, registers |-> device, writes |-> writes]

Returned(value, device, writes) ==
    [error |-> "none", value |-> value, registers |-> device, writes |-> writes]

\* the digits of a non-negative integer, most significant first: f'{value:b}'
RECURSIVE BinDigits(_)
BinDigits(value) ==
    IF value < 2 THEN <<value>> ELSE Append(BinDigits(value \div 2), value % 2)

Zeros(n) == [k \in 1..n |-> 0]

\* format(value, f'0{bit_length}b'): padded with zeros to at least bit_length
FormatBin(value, bit_length) ==
    LET d == BinDigits(value)
    IN  IF Len(d) < bit_length THEN Zeros(bit_length - Len(d)) \o d ELSE d

\* int(bits, base=2)
RECURSIVE IntBase2(_)
IntBase2(bits) ==
    IF bits = <<>> THEN 0
    ELSE 2 * IntBase2(SubSeq(bits, 1, Len(bits) - 1)) + bits[Len(bits)]

\* the loop "for i in state_repr: state += f'{int(i):1b}'"
RECURSIVE JoinDigits(_)
JoinDigits(items) ==
    IF items = <<>> THEN <<>> ELSE BinDigits(Head(items)) \o JoinDigits(Tail(items))

\* state representations: an int, an iterable of ints (a str of digits, a list)
\* or anything else
StateInt(value) == [kind |-> "int", value |-> value, items |-> <<>>]

StateIter(items) == [kind |-> "iter", value |-> 0, items |-> items]

StateOther == [kind |-> "other", value |-> 0, items |-> <<>>]

_create_state(state_repr, bit_length) ==
    LET state == IF state_repr.kind = "int"
                 THEN FormatBin(state_repr.value, bit_length)
                 ELSE LET joined == JoinDigits(state_repr.items)
                      IN  IF Len(joined) < bit_length
                          THEN Zeros(bit_length - Len(joined)) \o joined
                          ELSE joined
    IN  IF state_repr.kind = "other" THEN [error |-> "ValueError", state |-> <<>>]
        ELSE IF Len(state) # bit_length THEN [error |-> "ValueError", state |-> <<>>]
        ELSE [error |-> "none", state |-> state]

\* the device behind ArduinoToI2C: a register returns the byte written to it
read_register(device, reg, port) == device[reg][port + 1]

write_register(device, reg, port, data) ==
    [device EXCEPT ![reg] = [@ EXCEPT ![port + 1] = data]]

_read_reg(device, reg, port) == read_register(device, reg, port)

_write_reg(device, reg, port, data) == write_register(device, reg, port, data)

\* "ValueError" for a register that does not exist
_check_register(reg) == IF reg \in regs THEN "none" ELSE "ValueError"

\* "IndexError" for a port other than 0 and 1
CheckPort(port) == IF port \in {0, 1} THEN "none" ELSE "IndexError"

_get_port_state(device, reg, port) ==
    IF _check_register(reg) # "none" THEN Raised(_check_register(reg), device, <<>>)
    ELSE IF CheckPort(port) # "none" THEN Raised(CheckPort(port), device, <<>>)
    ELSE LET port_state == _create_state(StateInt(_read_reg(device, reg, port)),
                                         _n_bits_per_port)
         IN  IF port_state.error # "none" THEN Raised(port_state.error, device, <<>>)
             ELSE Returned(PyStr(Reverse(port_state.state)), device, <<>>)

\* ''.join(self._get_port_state(reg, port) for port in range(self._n_ports))
RECURSIVE JoinPortStates(_, _, _)
JoinPortStates(device, reg, port) ==
    IF port = _n_ports THEN Returned(PyStr(<<>>), device, <<>>)
    ELSE LET head == _get_port_state(device, reg, port)
         IN  IF head.error # "none" THEN head
             ELSE LET rest == JoinPortStates(device, reg, port + 1)
                  IN  IF rest.error # "none" THEN rest
                      ELSE Returned(PyStr(head.value.bits \o rest.value.bits), device, <<>>)

_get_state(device, reg) == JoinPortStates(device, reg, 0)

_set_port_state(device, reg, port, state) ==
    IF _check_register(reg) # "none" THEN Raised(_check_register(reg), device, <<>>)
    ELSE IF CheckPort(port) # "none" THEN Raised(CheckPort(port), device, <<>>)
    ELSE LET target_state == _create_state(state, _n_bits_per_port)
         IN  IF target_state.error # "none" THEN Raised(target_state.error, device, <<>>)
             ELSE LET reg_data == IntBase2(Reverse(target_state.state))
                  IN  Returned(PyNone, _write_reg(device, reg, port, reg_data),
                               <<[reg |-> reg, port |-> port, data |-> reg_data]>>)

\* mutant: every port is written, whatever it holds
PortDiffers_Always(target_port_state, current) == TRUE

\* "if target_port_state != self._get_port_state(reg=reg, port=port)"
PortDiffers(target_port_state, current) == target_port_state # current

\* the loop of _set_state from port on; writes are the writes sent so far
RECURSIVE SetStateLoop(_, _, _, _, _)
SetStateLoop(device, reg, target_reg_state, port, writes) ==
    IF port = _n_ports THEN Returned(PyNone, device, writes)
    ELSE LET target_port_state == SubSeq(target_reg_state, port * _n_bits_per_port + 1,
                                         (port + 1) * _n_bits_per_port)
             current == _get_port_state(device, reg, port)
         IN  IF current.error # "none" THEN Raised(current.error, device, writes)
             ELSE IF PortDiffers(target_port_state, current.value.bits)
             THEN LET w == _set_port_state(device, reg, port,
                                           StateIter(target_port_state))
                  IN  IF w.error # "none" THEN Raised(w.error, w.registers, writes)
                      ELSE SetStateLoop(w.registers, reg, target_reg_state, port + 1,
                                        writes \o w.writes)
             ELSE SetStateLoop(device, reg, target_reg_state, port + 1, writes)

_set_state(device, reg, state) ==
    LET target_reg_state == _create_state(state, _n_io_bits)
    IN  IF target_reg_state.error # "none" THEN Raised(target_reg_state.error, device, <<>>)
        ELSE SetStateLoop(device, reg, target_reg_state.state, 0, <<>>)

\* the bodies of the decorated methods: set_state, set_port_state, get_state and
\* get_port_state call the private method and have no return statement
DiscardValue(r) == IF r.error # "none" THEN r ELSE Returned(PyNone, r.registers, r.writes)

set_state(device, reg, state) == DiscardValue(_set_state(device, reg, state))

set_port_state(device, reg, port, state) ==
    DiscardValue(_set_port_state(device, reg, port, state))

get_state(device, reg) == DiscardValue(_get_state(device, reg))

get_port_state(device, reg, port) == DiscardValue(_get_port_state(device, reg, port))

(***************************************************************************)
(* Calls of the register methods on one TCA9555                            *)
(***************************************************************************)
\* what is left alone by a call of a register method
device_frame == <<input_vars, rows_done, current_row_idx, fluence_map, fluence_map_error,
                  row_bin_transit_times, pc, error, finalize_count, row_history,
                  kernel_vars, unscaled, dut_call, dut_result, transit_call,
                  transit_result, scan_input, scan_calls, lock_vars, gui_vars>>

\* the public method ran on the device; private is what the private method of
\* the same name does on the same device with the same arguments
IoCall(method, reg, port, state, public, private) ==
    /\ pc = "device"
    /\ io_call.n < MaxIoCalls
    /\ io_call' = [n |-> io_call.n + 1, method |-> method, reg |-> reg, port |-> port,
                   state |-> state]
    /\ io_result' = [error |-> public.error, value |-> public.value,
                     writes |-> public.writes, private |-> private,
                     before |-> registers]
    /\ registers' = public.registers
    /\ UNCHANGED device_frame

GetState(reg) ==
    IoCall("get_state", reg, 0, StateOther, get_state(registers, reg),
           _get_state(registers, reg))

GetPortState(reg, port) ==
    IoCall("get_port_state", reg, port, StateOther, get_port_state(registers, reg, port),
           _get_port_state(registers, reg, port))

SetState(reg, state) ==
    IoCall("set_state", reg, 0, state, set_state(registers, reg, state),
           _set_state(registers, reg, state))

SetPortState(reg, port, state) ==
    IoCall("set_port_state", reg, port, state,
           set_port_state(registers, reg, port, state),
           _set_port_state(registers, reg, port, state))

\* register names passed by callers: two that exist and one that does not
RegNames == {"input", "output", "bogus"}

PortArgs == {0, 1, 2}

DeviceBytes == {0, 1, 15}

\* 16-bit states: 0x0000, 0x0001, 0xF00F, 17 bits, '101', sixteen and seventeen
\* ones, and something that is neither an int nor an iterable
RegStates == {StateInt(0), StateInt(1), StateInt(61455), StateInt(65536),
              StateIter(<<1, 0, 1>>), StateIter([k \in 1..16 |-> 1]),
              StateIter([k \in 1..17 |-> 1]), StateOther}

\* 8-bit states
PortStates == {StateInt(0), StateInt(240), StateInt(256), StateIter(<<1, 1>>)}

InitDeviceCalls ==
    /\ beam_data = <<>>
    /\ irrad_data = Area(12, 48)
    /\ n_scan_rows = 0
    /\ pc = "device"
    /\ InitRows
    /\ InitMaps
    /\ InitDut
    /\ InitTransit
    /\ InitScan
    /\ thread_pc = [t \in Threads |-> "idle"]
    /\ thread_func = [t \in Threads |-> "none"]
    /\ lock_calls = 0
    /\ device_available = TRUE
    /\ InitGui
    /\ registers \in {[PowerOnRegisters EXCEPT !["output"] = <<a, b>>, !["input"] = <<c, d>>] :
                         a \in DeviceBytes, b \in DeviceBytes, c \in DeviceBytes,
                         d \in DeviceBytes}
    /\ io_call = NoIoCall
    /\ io_result = NoIoResult

NextDevice ==
    \/ \E reg \in RegNames : GetState(reg)
    \/ \E reg \in RegNames, port \in PortArgs : GetPortState(reg, port)
    \/ \E reg \in RegNames, state \in RegStates : SetState(reg, state)
    \/ \E reg \in RegNames, port \in PortArgs, state \in PortStates :
          SetPortState(reg, port, state)

SpecDevice == InitDeviceCalls /\ [][NextDevice]_vars

(***************************************************************************)
(* IrradGUI: tracked commands and the closing routine                      *)
(* (src/irrad_control/processes/gui.py)                                    *)
(* Every handler runs on the GUI thread, one at a time: the finished       *)
(* signal of a worker is delivered through the event loop.                 *)
(***************************************************************************)
MaxWorkers == 2

MaxCloseEvents == 2

\* what is left alone by a handler of the GUI
gui_frame == <<input_vars, rows_done, current_row_idx, fluence_map, fluence_map_error,
               row_bin_transit_times, error, finalize_count, row_history,
               kernel_vars, unscaled, dut_call, dut_result, transit_call,
               transit_result, scan_input, scan_calls, lock_vars, device_vars>>

\* a started QtWorker: what it runs, for which host, and the ID it is tracked by
Worker(func, hostname, tracked, id) ==
    [func |-> func, hostname |-> hostname, tracked |-> tracked, cmd_id |-> id,
     finished |-> FALSE]

\* mutant: the counter is not advanced
NextCmdId_Same(id) == id

\* line 410: self._cmd_id += 1
NextCmdId(id) == id + 1

\* _connect_worker_close: the ID is appended under the hostname (line 407) and
\* the counter advanced; the removal and _check_close wait for the finished signal
_connect_worker_close(reply, id, hostname) ==
    [cmd_reply |-> [reply EXCEPT ![hostname] = Append(@, id)], cmd_id |-> NextCmdId(id)]

\* list.remove: the first occurrence is dropped
RECURSIVE ListRemove(_, _)
ListRemove(list, x) ==
    IF list = <<>> THEN <<>>
    ELSE IF Head(list) = x THEN Tail(list)
    ELSE <<Head(list)>> \o ListRemove(Tail(list), x)

\* line 798: any(val for val in self._cmd_reply.values())
AnyPending(reply) == \E h \in Hosts : reply[h] # <<>>

\* mutant: the subprocesses are not looked at
AnyActive_Never(pids) == FALSE

\* line 813: any 'active' flag among the registered processes
AnyActive(pids) == \E h \in Hosts : pids[h] = "active"

\* lines 822-833: a shutdown command without reply check for every registered host
RECURSIVE ShutdownWorkers(_)
ShutdownWorkers(hosts) ==
    IF hosts = {} THEN <<>>
    ELSE LET h == CHOOSE x \in hosts : TRUE
         IN  <<Worker("_send_cmd_get_reply", h, FALSE, -1)>> \o ShutdownWorkers(hosts \ {h})

\* closeEvent in the state (reply, pids, started); still_active are the
\* processes that check_active_processes finds alive
closeEvent(reply, pids, started, still_active) ==
    IF AnyPending(reply)
    THEN [outcome |-> "ignored", cleaned_up |-> FALSE, active_pids |-> pids,
          workers |-> started]
    ELSE IF AnyActive(pids)
    THEN [outcome |-> "ignored", cleaned_up |-> FALSE,
          active_pids |-> [h \in Hosts |-> IF pids[h] = "active" /\ h \notin still_active
                                           THEN "inactive" ELSE pids[h]],
          workers |-> started \o ShutdownWorkers({h \in Hosts : pids[h] # "none"})]
    ELSE [outcome |-> "accepted", cleaned_up |-> TRUE, active_pids |-> pids,
          workers |-> started]

\* the effect of one closeEvent on the state of the GUI
ApplyCloseEvent(reply, started, still_active) ==
    LET r == closeEvent(reply, active_pids, started, still_active)
    IN  /\ try_close' = TRUE
        /\ log_close' = (log_close \/ r.outcome = "ignored")
        /\ active_pids' = r.active_pids
        /\ workers' = r.workers
        /\ close_event' = [n |-> close_event.n + 1, outcome |-> r.outcome,
                           cleaned_up |-> r.cleaned_up,
                           pending |-> {h \in Hosts : reply[h] # <<>>},
                           active |-> {h \in Hosts : active_pids[h] = "active"}]
        /\ pc' = IF r.outcome = "accepted" THEN "closed" ELSE "gui"

\* send_cmd, lines 541-556
SendCmd(hostname, check_reply) ==
    /\ pc = "gui"
    /\ Len(workers) < MaxWorkers
    /\ LET c == IF check_reply THEN _connect_worker_close(cmd_reply, cmd_id, hostname)
                ELSE [cmd_reply |-> cmd_reply, cmd_id |-> cmd_id]
       IN  /\ cmd_reply' = c.cmd_reply
           /\ cmd_id' = c.cmd_id
           /\ workers' = Append(workers, Worker("_send_cmd_get_reply", hostname, check_reply,
                                                IF check_reply THEN cmd_id ELSE -1))
    /\ UNCHANGED <<try_close, log_close, active_pids, close_event, pc, gui_frame>>

\* _init_processes, lines 277-292: the configuration worker of a server
ConfigureServer(server) ==
    /\ pc = "gui"
    /\ Len(workers) < MaxWorkers
    /\ \A k \in DOMAIN workers : workers[k].func # "configure_server"
    /\ LET c == _connect_worker_close(cmd_reply, cmd_id, server)
       IN  /\ cmd_reply' = c.cmd_reply
           /\ cmd_id' = c.cmd_id
           /\ workers' = Append(workers, Worker("configure_server", server, TRUE, cmd_id))
    /\ UNCHANGED <<try_close, log_close, active_pids, close_event, pc, gui_frame>>

\* the finished signal of worker k: the removal connected at line 408, then
\* _check_close, which closes again when a close was asked for
WorkerFinished(k, still_active) ==
    /\ pc = "gui"
    /\ k \in DOMAIN workers
    /\ ~workers[k].finished
    /\ LET w == workers[k]
           reply == IF w.tracked
                    THEN [cmd_reply EXCEPT ![w.hostname] = ListRemove(@, w.cmd_id)]
                    ELSE cmd_reply
           done == [workers EXCEPT ![k].finished = TRUE]
       IN  /\ cmd_reply' = reply
           /\ IF w.tracked /\ try_close
              THEN ApplyCloseEvent(reply, done, still_active)
              ELSE /\ workers' = done
                   /\ UNCHANGED <<try_close, log_close, active_pids, close_event, pc>>
    /\ UNCHANGED <<cmd_id, gui_frame>>

\* the user closes the window, or close_timer fires: closeEvent, lines 789-843
CloseAttempt(still_active) ==
    /\ pc = "gui"
    /\ close_event.n < MaxCloseEvents
    /\ ApplyCloseEvent(cmd_reply, workers, still_active)
    /\ UNCHANGED <<cmd_id, cmd_reply, gui_frame>>

\* collect_proc_infos registers the process started on a host (line 327)
RegisterPid(hostname) ==
    /\ pc = "gui"
    /\ active_pids[hostname] = "none"
    /\ active_pids' = [active_pids EXCEPT ![hostname] = "active"]
    /\ UNCHANGED <<cmd_id, cmd_reply, try_close, log_close, workers, close_event, pc,
                   gui_frame>>

InitGuiRun ==
    /\ beam_data = <<>>
    /\ irrad_data = Area(12, 48)
    /\ n_scan_rows = 0
    /\ pc = "gui"
    /\ InitRows
    /\ InitMaps
    /\ InitDut
    /\ InitTransit
    /\ InitScan
    /\ thread_pc = [t \in Threads |-> "idle"]
    /\ thread_func = [t \in Threads |-> "none"]
    /\ lock_calls = 0
    /\ device_available = TRUE
    /\ InitDevice
    /\ InitGui

StillActive == {a \in SUBSET Hosts : \A h \in a : active_pids[h] = "active"}

NextGui ==
    \/ \E h \in Hosts, check_reply \in BOOLEAN : SendCmd(h, check_reply)
    \/ \E server \in Servers : ConfigureServer(server)
    \/ \E k \in DOMAIN workers, a \in StillActive : WorkerFinished(k, a)
    \/ \E a \in StillActive : CloseAttempt(a)
    \/ \E h \in Hosts : RegisterPid(h)

SpecGui == InitGuiRun /\ [][NextGui]_vars

(***************************************************************************)
(* Properties of the cursor and the sample windows                         *)
(***************************************************************************)
SampleTime(k) == beam_data[k].timestamp

\* samples the slice beam_data[c:] still holds
FromCursor(c) == (c + 1)..Len(beam_data)

\* C1: the cursor returned by _process_row is never below the cursor passed
\* in, and never exceeds the number of beam samples.
C1_CursorMonotone ==
    /\ call_row_idx <= current_row_idx
    /\ current_row_idx <= Len(beam_data)

\* a second row advanced a cursor that the first row had already advanced
C1_Witness ==
    /\ rows_done = 2
    /\ error = "none"
    /\ 0 < call_row_idx
    /\ call_row_idx < current_row_idx

\* C2: for a row processed with cursor c, the row window is the samples from
\* c on stamped within [row_start_timestamp, row_stop_timestamp], the wait
\* window the samples from c on stamped before row_start_timestamp, and the
\* cursor after the row is c plus the number of samples from c on stamped
\* at or before row_stop_timestamp.
C2_Windows ==
    rows_done > 0 =>
        /\ row_window = {k \in FromCursor(call_row_idx) :
                            /\ row_data.row_start_timestamp <= SampleTime(k)
                            /\ SampleTime(k) <= row_data.row_stop_timestamp}
        /\ wait_window = {k \in FromCursor(call_row_idx) :
                            SampleTime(k) < row_data.row_start_timestamp}
        /\ error = "none" =>
              current_row_idx = call_row_idx
                  + Cardinality({k \in FromCursor(call_row_idx) :
                                    SampleTime(k) <= row_data.row_stop_timestamp})

\* a later row with a wait window and a row window, one sample on the row's start
C2_Witness ==
    /\ rows_done = 2
    /\ error = "none"
    /\ wait_window # {}
    /\ \E k \in row_window : SampleTime(k) = row_data.row_start_timestamp

\* C3: the wait pass is skipped exactly for the first row of the
\* reconstruction and for rows whose wait slice is empty.
C3_WaitSkipped ==
    rows_done > 0 =>
        (~wait_ran <=>
            \/ rows_done = 1
            \/ {k \in FromCursor(call_row_idx) :
                   SampleTime(k) < row_data.row_start_timestamp} = {})

\* the wait pass ran for a second row
C3_Witness ==
    /\ rows_done = 2
    /\ wait_ran
    /\ error = "none"

(***************************************************************************)
(* Properties of finalization and of a failed row                          *)
(***************************************************************************)
MapCells == (1..bins[1]) \X (1..bins[2])

\* C4: finalization (variance grid -> sqrt, then both grids x100) happens
\* exactly once in a reconstruction that returns, only after the last row
\* has been processed, and no row or wait deposition follows it.
C4_FinalizeOnceAfterLastRow ==
    /\ [](/\ pc = "returned" => finalize_count = 1 /\ rows_done = n_scan_rows
          /\ pc # "returned" => finalize_count = 0)
    /\ [][/\ finalize_count' # finalize_count =>
                /\ rows_done = n_scan_rows
                /\ \A c \in MapCells :
                      /\ fluence_map_error'[c[1]][c[2]]
                            = Sqrt(fluence_map_error[c[1]][c[2]]) * AreaUnitScale
                      /\ fluence_map'[c[1]][c[2]]
                            = fluence_map[c[1]][c[2]] * AreaUnitScale
          /\ finalize_count >= 1 =>
                UNCHANGED <<fluence_map, fluence_map_error, rows_done, deposits>>]_vars

\* a reconstruction of two rows returned grids that hold depositions
C4_Witness ==
    /\ pc = "returned"
    /\ rows_done = 2
    /\ \E c \in MapCells : fluence_map[c[1]][c[2]] > 0 /\ fluence_map_error[c[1]][c[2]] > 0

C6_FailedRowAborts ==
    error # "none" =>
        /\ pc = "raised"
        /\ finalize_count = 0
        /\ ~ENABLED ProcessAnyRow
        /\ ~ENABLED Finalize

\* a row failed while scan_data still held a later row
C6_Witness ==
    /\ error # "none"
    /\ rows_done < n_scan_rows

(***************************************************************************)
(* Properties of the direction check                                       *)
(***************************************************************************)
\* mu_x of the kernel calls of the last row's scan pass, in call order
ScanOrder ==
    LET scan == SelectSeq(deposits, LAMBDA d : d.pass = "scan")
    IN  [k \in 1..Len(scan) |-> scan[k].mu_x]

StrictlyWithin(x, edge) == Abs(x - edge) < EdgeTolerance

StartEdge == irrad_data.scan_area_start_x

StopEdge == irrad_data.scan_area_stop_x

\* the ramp distance of the last row lies within the row, so that
\* _calc_bin_transit_times stays inside its arrays
RampInsideRow ==
    RampIdx(map_bin_edges_x(irrad_data), row_data.row_scan_speed, row_data.row_scan_accel)
        <= bins[2]

\* C7 as stated: a start within 0.5 mm of the start edge deposits the bins in
\* natural centre order, one within 0.5 mm of the stop edge in reversed
\* order, and every other start fails the row with the neither-edge error.
C7_AsStated ==
    rows_done > 0 =>
        IF StrictlyWithin(row_data.row_start_x, StartEdge)
        THEN ScanOrder = map_bin_centers_x(irrad_data)
        ELSE IF StrictlyWithin(row_data.row_start_x, StopEdge)
        THEN ScanOrder = Reverse(map_bin_centers_x(irrad_data))
        ELSE error = NeitherEdge

\* C7 amended: for a row whose ramp distance lies within the row and whose
\* row window holds a sample, a start less than 0.5 mm from the start edge deposits the bins in natural centre order,
\* otherwise a start less than 0.5 mm from the stop edge deposits them in
\* reversed order, and every other start (one exactly 0.5 mm off included)
\* fails the row with the neither-edge error; a row whose row window is
\* empty deposits no bin and fails, with the neither-edge error if its wait
\* pass ran for a start at neither edge and with the interpolation error
\* otherwise.
C7_Direction ==
    (rows_done > 0 /\ RampInsideRow) =>
        LET at_start == StrictlyWithin(row_data.row_start_x, StartEdge)
            at_stop  == StrictlyWithin(row_data.row_start_x, StopEdge)
        IN  IF row_window # {}
            THEN IF at_start
                 THEN error = "none" /\ ScanOrder = map_bin_centers_x(irrad_data)
                 ELSE IF at_stop
                 THEN error = "none"
                      /\ ScanOrder = Reverse(map_bin_centers_x(irrad_data))
                 ELSE error = NeitherEdge /\ deposits = <<>>
            ELSE /\ ScanOrder = <<>>
                 /\ error = IF wait_ran /\ ~at_start /\ ~at_stop
                            THEN NeitherEdge ELSE EmptySamplePoints

\* a row that started off the stop edge by less than 0.5 mm was deposited
\* in reversed order
C7_Witness ==
    /\ rows_done > 0
    /\ error = "none"
    /\ row_data.row_start_x # StopEdge
    /\ ~StrictlyWithin(row_data.row_start_x, StartEdge)
    /\ ScanOrder = Reverse(map_bin_centers_x(irrad_data))
    /\ ScanOrder # map_bin_centers_x(irrad_data)

\* C8 as stated: a row that starts at the midpoint of the scan area always
\* raises.
C8_AsStated ==
    (rows_done > 0 /\ row_data.row_start_x = ScanAreaMidX(irrad_data)) =>
        error # "none"

\* C8 amended: for a scan area whose edges are at least 1 mm apart, a row
\* that starts at the midpoint (and whose ramp distance lies within the
\* row) always raises and deposits nothing: the
\* neither-edge error in the wait pass, and in the scan pass when the row
\* window holds a sample (an empty row window raises the interpolation
\* error first).
C8_MidpointRaises ==
    (/\ rows_done > 0
     /\ row_data.row_start_x = ScanAreaMidX(irrad_data)
     /\ RampInsideRow
     /\ Abs(StopEdge - StartEdge) >= 2 * EdgeTolerance) =>
        /\ error # "none"
        /\ deposits = <<>>
        /\ (wait_ran \/ row_window # {}) => error = NeitherEdge

\* the wait pass of a second row raised for a start at the midpoint
C8_Witness ==
    /\ rows_done = 2
    /\ row_data.row_start_x = ScanAreaMidX(irrad_data)
    /\ Abs(StopEdge - StartEdge) >= 2 * EdgeTolerance
    /\ wait_ran
    /\ error = NeitherEdge

(***************************************************************************)
(* Properties of apply_gauss_2d_kernel                                     *)
(***************************************************************************)
SkipSigmasError == "Minimum of skip_sigmas is 3"

\* C9: the kernel call raises exactly when skip_sigmas < 3, and a call that
\* raised has modified neither the value grid nor the variance grid.
C9_SkipSigmasRejected ==
    kernel_call.n > 0 =>
        /\ kernel_call.skip_sigmas < 3 <=> error = SkipSigmasError
        /\ kernel_call.skip_sigmas >= 3 <=> error = "none"
        /\ kernel_call.skip_sigmas < 3 =>
              /\ <<fluence_map, fluence_map_error>> = kernel_before
              /\ touched = {}

\* a call with skip_sigmas = 2 was rejected on grids that an earlier call had filled
C9_Witness ==
    /\ kernel_call.n = 2
    /\ kernel_call.skip_sigmas = 2
    /\ error = SkipSigmasError
    /\ \E c \in MapCells : fluence_map[c[1]][c[2]] > 0

\* the cell lies within skip_sigmas sigmas of the mean on both axes
WithinTruncation(c) ==
    /\ Abs(map_bin_centers_y(irrad_data)[c[1]] - kernel_call.mu_y)
          <= kernel_call.skip_sigmas * kernel_call.sigma_y
    /\ Abs(map_bin_centers_x(irrad_data)[c[2]] - kernel_call.mu_x)
          <= kernel_call.skip_sigmas * kernel_call.sigma_x

KernelIncrement(c, amplitude) ==
    gauss_2d_pdf(map_bin_centers_x(irrad_data)[c[2]], map_bin_centers_y(irrad_data)[c[1]],
                 kernel_call.mu_x, kernel_call.mu_y, kernel_call.sigma_x,
                 kernel_call.sigma_y, amplitude, kernel_call.normalized)

\* C10: one kernel call updates exactly the cells whose centre lies within
\* skip_sigmas * sigma of (mu_x, mu_y) on both axes, each of them in the
\* value grid and in the variance grid, and leaves every other cell of both
\* grids as it was.
C10_KernelFrame ==
    (kernel_call.n > 0 /\ error = "none") =>
        \A c \in MapCells :
            IF WithinTruncation(c)
            THEN /\ c \in touched
                 /\ fluence_map[c[1]][c[2]] = kernel_before[1][c[1]][c[2]]
                        + KernelIncrement(c, kernel_call.amplitude)
                 /\ fluence_map_error[c[1]][c[2]] = kernel_before[2][c[1]][c[2]]
                        + KernelIncrement(c, kernel_call.amplitude_error
                                                * kernel_call.amplitude_error)
            ELSE /\ c \notin touched
                 /\ fluence_map[c[1]][c[2]] = kernel_before[1][c[1]][c[2]]
                 /\ fluence_map_error[c[1]][c[2]] = kernel_before[2][c[1]][c[2]]

\* a call updated a cell exactly skip_sigmas sigmas off the mean, changed it
\* in both grids, and left another cell alone
C10_Witness ==
    /\ kernel_call.n > 0
    /\ error = "none"
    /\ \E c \in touched :
          /\ Abs(map_bin_centers_x(irrad_data)[c[2]] - kernel_call.mu_x)
                = kernel_call.skip_sigmas * kernel_call.sigma_x
          /\ fluence_map_error[c[1]][c[2]] # kernel_before[2][c[1]][c[2]]
    /\ \E c \in touched : fluence_map[c[1]][c[2]] # kernel_before[1][c[1]][c[2]]
    /\ MapCells \ touched # {}

(***************************************************************************)
(* Properties of extract_dut_map                                           *)
(***************************************************************************)
DutCalled == dut_call.n > 0

\* the call passed a rectangle and no irrad_data
RectangleOnly == DutCalled /\ ~dut_call.irrad_data.given /\ dut_call.dut_rectangle.given

\* the rectangle the caller asked for, as (x_min, y_min, x_max, y_max)
RequestedRectangle ==
    IF dut_call.irrad_data.given
    THEN <<dut_call.irrad_data.value.dut_rect_start_x
               - dut_call.irrad_data.value.scan_area_start_x,
           dut_call.irrad_data.value.dut_rect_start_y
               - dut_call.irrad_data.value.scan_area_start_y,
           dut_call.irrad_data.value.dut_rect_stop_x
               - dut_call.irrad_data.value.scan_area_start_x,
           dut_call.irrad_data.value.dut_rect_stop_y
               - dut_call.irrad_data.value.scan_area_start_y>>
    ELSE IF dut_call.center_symm
    THEN get_dut_rect(dut_result.map_bin_edges_x[Len(dut_result.map_bin_edges_x)],
                      dut_result.map_bin_edges_y[Len(dut_result.map_bin_edges_y)],
                      dut_call.dut_rectangle.value)
    ELSE dut_call.dut_rectangle.value

\* C11 as stated: a call without irrad_data, with center_symm False and a
\* rectangle (x_min, y_min, x_max, y_max) returns the index ranges of the
\* supplied x_min, y_min, x_max, y_max themselves.
C11_AsStated ==
    (RectangleOnly /\ ~dut_call.center_symm /\ Len(dut_call.dut_rectangle.value) = 4) =>
        /\ dut_result.error = "none"
        /\ dut_result.x_min_idx =
               searchsorted_left(dut_result.map_bin_edges_x, dut_call.dut_rectangle.value[1])
        /\ dut_result.y_min_idx =
               searchsorted_left(dut_result.map_bin_edges_y, dut_call.dut_rectangle.value[2])
        /\ dut_result.x_max_idx =
               searchsorted_right(dut_result.map_bin_edges_x, dut_call.dut_rectangle.value[3])
        /\ dut_result.y_max_idx =
               searchsorted_right(dut_result.map_bin_edges_y, dut_call.dut_rectangle.value[4])

\* C12 as stated: a rectangle whose length is not 2 with center_symm True and
\* a rectangle whose length is not 4 with center_symm False are both rejected
\* with a ValueError.
C12_AsStated ==
    RectangleOnly =>
        /\ (dut_call.center_symm /\ Len(dut_call.dut_rectangle.value) # 2)
               => dut_result.error = CentredArityError
        /\ (~dut_call.center_symm /\ Len(dut_call.dut_rectangle.value) # 4)
               => dut_result.error = ExplicitArityError

\* C13: the missing-input ValueError is raised exactly when neither irrad_data
\* nor dut_rectangle is given, whatever center_symm is, and then no index has
\* been computed.
C13_MissingInput ==
    DutCalled =>
        /\ dut_result.error = MissingInputError
               <=> (~dut_call.irrad_data.given /\ ~dut_call.dut_rectangle.given)
        /\ dut_result.error = MissingInputError => ~dut_result.index_computed

\* a call with neither argument and center_symm set was refused
C13_Witness ==
    /\ DutCalled
    /\ ~dut_call.irrad_data.given
    /\ ~dut_call.dut_rectangle.given
    /\ dut_call.center_symm
    /\ dut_result.error = MissingInputError

\* C14 as stated: every returned bin centre lies inside the requested
\* rectangle and the cropped map has one row per returned y centre and one
\* column per returned x centre.
C14_AsStated ==
    (DutCalled /\ dut_result.error = "none") =>
        /\ \A k \in DOMAIN dut_result.dut_bins_x :
               /\ RequestedRectangle[1] <= dut_result.dut_bins_x[k]
               /\ dut_result.dut_bins_x[k] <= RequestedRectangle[3]
        /\ \A k \in DOMAIN dut_result.dut_bins_y :
               /\ RequestedRectangle[2] <= dut_result.dut_bins_y[k]
               /\ dut_result.dut_bins_y[k] <= RequestedRectangle[4]
        /\ Len(dut_result.dut_map) = Len(dut_result.dut_bins_y)
        /\ \A j \in DOMAIN dut_result.dut_map :
               Len(dut_result.dut_map[j]) = Len(dut_result.dut_bins_x)

(***************************************************************************)
(* Properties of _calc_bin_transit_times                                   *)
(***************************************************************************)
TransitBins == 0..(Len(row_bin_transit_times) - 1)

\* C15 as stated: every call assigns a dwell time to each of the
\* len(edges) - 1 bins and accesses no index outside 0..len(edges) - 2,
\* whatever the ramp distance is.
C15_AsStated ==
    transit_call.n > 0 =>
        /\ transit_result.assigned = TransitBins
        /\ transit_result.accessed \subseteq TransitBins

(***************************************************************************)
(* Properties of _process_row_scan                                         *)
(***************************************************************************)
ScanElapsed == scan_input.row.row_stop_timestamp - scan_input.row.row_start_timestamp

\* C16 as stated: the dwell times of a row sum to the elapsed time minus the
\* symmetric overhead of the scan pass (up to the rounding of its halving),
\* and to the elapsed time when that overhead is zero.
C16_AsStated ==
    \A k \in DOMAIN scan_calls :
        /\ Abs(SeqSum(scan_calls[k].times)
                   - (ScanElapsed - scan_calls[k].row_start_overhead)) <= 1
        /\ scan_calls[k].row_start_overhead = 0
               => Abs(SeqSum(scan_calls[k].times) - ScanElapsed) <= 1

\* C16 amended: for a row whose ramp distance lies within the row, the
\* overhead is half of what the dwell times leave of the elapsed time, so the
\* dwell times sum to the elapsed time minus twice the overhead; when the
\* dwell times sum to the elapsed time the overhead is zero, and when the
\* overhead is zero they sum to the elapsed time (up to the rounding of the
\* halving).
C16_DwellSum ==
    \A k \in DOMAIN scan_calls :
        /\ scan_calls[k].row_start_overhead
               = Div(ScanElapsed - SeqSum(scan_calls[k].times), 2)
        /\ SeqSum(scan_calls[k].times) = ScanElapsed
               => scan_calls[k].row_start_overhead = 0
        /\ scan_calls[k].row_start_overhead = 0
               => Abs(SeqSum(scan_calls[k].times) - ScanElapsed) <= 1

\* a row with an overhead other than zero and a row with no overhead at all
\* have gone through the scan pass
C16_Witness ==
    /\ Len(scan_calls) = 2
    /\ scan_calls[1].error = "none"
    /\ \/ scan_calls[1].row_start_overhead > 1
       \/ /\ scan_calls[1].row_start_overhead = 0
          /\ SeqSum(scan_calls[1].times) = ScanElapsed
          /\ ScanElapsed > 0

\* a grid flipped in x
MirrorX(map_2d) ==
    [j \in DOMAIN map_2d |->
        [i \in DOMAIN map_2d[j] |-> map_2d[j][Len(map_2d[j]) + 1 - i]]]

\* the two calls processed the row once from the start edge (k) and once
\* from the stop edge (l)
BothWays(k, l) ==
    /\ scan_calls[k].row_start_x = irrad_data.scan_area_start_x
    /\ scan_calls[l].row_start_x = irrad_data.scan_area_stop_x

\* same amounts per bin, bin i at centre i from the start edge and at centre
\* n - 1 - i from the stop edge, and mirrored grids
Mirrored(k, l) ==
    /\ scan_calls[k].error = scan_calls[l].error
    /\ Len(scan_calls[k].deposits) = Len(scan_calls[l].deposits)
    /\ \A i \in DOMAIN scan_calls[k].deposits :
           /\ scan_calls[k].deposits[i].amplitude = scan_calls[l].deposits[i].amplitude
           /\ scan_calls[k].deposits[i].mu_x = map_bin_centers_x(irrad_data)[i]
           /\ scan_calls[l].deposits[i].mu_x =
                  map_bin_centers_x(irrad_data)[bins[2] + 1 - i]
    /\ scan_calls[l].map_2d = MirrorX(scan_calls[k].map_2d)
    /\ scan_calls[l].map_2d_error = MirrorX(scan_calls[k].map_2d_error)

\* C17 as stated: the same row processed once from the start edge and once
\* from the stop edge deposits the same amount per bin, bin i at centre i in
\* the first case and at centre n - 1 - i in the second, and the two grids
\* are mirror images in x.
C17_AsStated ==
    \A k, l \in DOMAIN scan_calls : BothWays(k, l) => Mirrored(k, l)

\* C17 amended: the same, for a scan area whose edges are at least 0.5 mm
\* apart and a row whose ramp distance lies within the row.
C17_Mirror ==
    \A k, l \in DOMAIN scan_calls :
        (BothWays(k, l) /\ Abs(StopEdge - StartEdge) >= EdgeTolerance) => Mirrored(k, l)

\* a row whose first and last bin hold different amounts was deposited both
\* ways in a scan area at least 0.5 mm wide
C17_Witness ==
    /\ Len(scan_calls) = 2
    /\ BothWays(1, 2)
    /\ Abs(StopEdge - StartEdge) >= EdgeTolerance
    /\ scan_calls[1].error = "none"
    /\ scan_calls[1].deposits[1].amplitude # scan_calls[1].deposits[bins[2]].amplitude
    /\ scan_calls[1].map_2d # scan_calls[2].map_2d

(***************************************************************************)
(* Properties of the grid of generate_fluence_map                          *)
(***************************************************************************)
StrictlyIncreasing(a) == \A k \in 1..(Len(a) - 1) : a[k] < a[k + 1]

Midpoints(centers, edges) ==
    /\ Len(centers) = Len(edges) - 1
    /\ \A k \in DOMAIN centers : 2 * centers[k] = edges[k] + edges[k + 1]

GridShape(map_2d) ==
    /\ Len(map_2d) = Len(map_bin_centers_y(irrad_data))
    /\ \A j \in DOMAIN map_2d : Len(map_2d[j]) = Len(map_bin_centers_x(irrad_data))

ZeroFilled(map_2d) == \A j \in DOMAIN map_2d : \A i \in DOMAIN map_2d[j] : map_2d[j][i] = 0

\* edges, centres, shapes, and empty grids before the first row
GridInvariant ==
    /\ StrictlyIncreasing(map_bin_edges_x(irrad_data))
    /\ StrictlyIncreasing(map_bin_edges_y(irrad_data))
    /\ Midpoints(map_bin_centers_x(irrad_data), map_bin_edges_x(irrad_data))
    /\ Midpoints(map_bin_centers_y(irrad_data), map_bin_edges_y(irrad_data))
    /\ GridShape(fluence_map)
    /\ GridShape(fluence_map_error)
    /\ (pc = "loop" /\ rows_done = 0) => (ZeroFilled(fluence_map) /\ ZeroFilled(fluence_map_error))

\* the scan area has a width and a height
HasExtent ==
    /\ irrad_data.scan_area_start_x # irrad_data.scan_area_stop_x
    /\ irrad_data.scan_area_start_y # irrad_data.scan_area_stop_y

\* C18 as stated: for every scan area the edge arrays are strictly
\* increasing, the centres are the midpoints of the edges, both grids start
\* zero-filled and have the shape (len(centers_y), len(centers_x)).
C18_AsStated == GridInvariant

\* C18 amended: for every scan area of non-zero width and height the edge
\* arrays are strictly increasing, the centres are the midpoints of the
\* edges, both grids start zero-filled and have the shape
\* (len(centers_y), len(centers_x)), and no step of the reconstruction
\* changes the centre arrays or the shape of a grid.
C18_Grid ==
    /\ [](HasExtent => GridInvariant)
    /\ [][/\ map_bin_centers_x(irrad_data)' = map_bin_centers_x(irrad_data)
          /\ map_bin_centers_y(irrad_data)' = map_bin_centers_y(irrad_data)
          /\ Len(fluence_map') = Len(fluence_map)
          /\ \A j \in DOMAIN fluence_map : Len(fluence_map'[j]) = Len(fluence_map[j])
          /\ Len(fluence_map_error') = Len(fluence_map_error)
          /\ \A j \in DOMAIN fluence_map_error :
                 Len(fluence_map_error'[j]) = Len(fluence_map_error[j])]_vars

\* a row has been deposited into the grids of a scan area that has an extent
C18_Witness ==
    /\ HasExtent
    /\ rows_done = 1
    /\ error = "none"
    /\ ~ZeroFilled(fluence_map)
    /\ ~ZeroFilled(fluence_map_error)

(***************************************************************************)
(* Mass deposited by one kernel call                                       *)
(***************************************************************************)
\* the sum of the increments of the value grid, in 1/1000 ion per unit^2
MassAdded == SeqSum([j \in DOMAIN fluence_map |->
                        SeqSum([i \in DOMAIN fluence_map[j] |->
                                   fluence_map[j][i] - kernel_before[1][j][i]])])

\* units^2 per mm^2: the 0.5 mm tolerance is EdgeTolerance units
UnitsPerMm2 == (2 * EdgeTolerance) * (2 * EdgeTolerance)

\* a and b differ by no more than 5 % of b
WithinDiscretization(a, b) == 20 * Abs(a - b) <= b

\* C19 as stated: the increments of the value grid (ions / mm^2) sum to the
\* deposited amplitude up to the discretization error, whatever the bin size
\* and the beam sigma are.
C19_AsStated ==
    kernel_call.n = 1 =>
        WithinDiscretization(MassAdded * UnitsPerMm2, kernel_call.amplitude * 1000)

\* C19 amended: the increments of the value grid sum to the deposited
\* amplitude divided by the area of a bin, up to the discretization error:
\* the sum times the bin area is the amplitude.
C19_MassPerBinArea ==
    kernel_call.n = 1 =>
        WithinDiscretization(MassAdded * kernel_call.bin_size * kernel_call.bin_size,
                             kernel_call.amplitude * 1000)

\* a kernel has been deposited on a grid whose bins are not 1 mm wide
C19_Witness ==
    /\ kernel_call.n = 1
    /\ kernel_call.bin_size * kernel_call.bin_size # UnitsPerMm2
    /\ kernel_call.skip_sigmas = 100
    /\ error = "none"
    /\ MassAdded > 0

(***************************************************************************)
(* Properties of _event_lock                                               *)
(***************************************************************************)
\* the threads that are executing the body of a decorated method
InIoFunc == {t \in Threads : thread_pc[t] = "io_func"}

\* C20 as stated: whatever the interleaving, at most one thread at a time is
\* executing the body of a method decorated with _event_lock.
C20_AsStated == Cardinality(InIoFunc) <= 1


(***************************************************************************)
(* Properties of _process_row_wait                                         *)
(***************************************************************************)
WaitDeposits == SelectSeq(deposits, LAMBDA d : d.pass = "wait")

\* C22: a wait pass over N >= 1 samples that reaches its loop makes exactly
\* N - 1 kernel calls, the i-th with the ions of sample i's current over the
\* interval timestamp[i+1] - timestamp[i]; the last sample's current is never
\* deposited, and a window of one sample deposits nothing.
C22_WaitIntervals ==
    (wait_ran /\ error # NeitherEdge) =>
        LET N == Cardinality(wait_window)
        IN  /\ Len(WaitDeposits) = N - 1
            /\ \A i \in 1..(N - 1) :
                  WaitDeposits[i].amplitude =
                      Div(beam_data[i].beam_current
                             * (beam_data[i + 1].timestamp - beam_data[i].timestamp),
                          elementary_charge)
            /\ N = 1 => <<fluence_map, fluence_map_error>> = <<ZeroMap, ZeroMap>>

\* a wait window of three samples led to two kernel calls that filled a cell
C22_Witness ==
    /\ wait_ran
    /\ error = "none"
    /\ Cardinality(wait_window) = 3
    /\ Len(WaitDeposits) = 2
    /\ WaitDeposits[1].amplitude > 0
    /\ WaitDeposits[2].amplitude > WaitDeposits[1].amplitude
    /\ \E c \in MapCells : fluence_map[c[1]][c[2]] > 0

(***************************************************************************)
(* Properties of gauss_2d_pdf within a kernel call                         *)
(***************************************************************************)
\* what the last kernel call added to a cell of the value grid
ValueIncrement(c) == fluence_map[c[1]][c[2]] - kernel_before[1][c[1]][c[2]]

\* peak * exp(-0.5 * (dx^2 + dy^2)) at the centre of cell c, peak in 1/1000
PeakTimesExp(c, peak) ==
    Div(peak * ExpMilli(map_bin_centers_x(irrad_data)[c[2]],
                        map_bin_centers_y(irrad_data)[c[1]], kernel_call.mu_x,
                        kernel_call.mu_y, kernel_call.sigma_x, kernel_call.sigma_y), 1000)

UnchangedPeak == kernel_call.amplitude * 1000

DividedPeak == gauss_2d_norm(kernel_call.amplitude, kernel_call.sigma_x, kernel_call.sigma_y)

C24_CloseOnlyWhenIdle ==
    close_event.n > 0 =>
        /\ close_event.outcome \in {"accepted", "ignored"}
        /\ close_event.outcome = "accepted" <=>
              (close_event.pending = {} /\ close_event.active = {})
        /\ close_event.outcome = "accepted" =>
              /\ close_event.cleaned_up
              /\ pc = "closed"
              /\ \A h \in Hosts : cmd_reply[h] = <<>> /\ active_pids[h] # "active"
        /\ close_event.outcome = "ignored" => (pc = "gui" /\ ~close_event.cleaned_up)

\* a close was ignored, the tracked worker finished, the process was found
\* gone, and a later closeEvent accepted
C24_Witness ==
    /\ close_event.n > 1
    /\ close_event.outcome = "accepted"
    /\ log_close
    /\ \E k \in DOMAIN workers : workers[k].tracked /\ workers[k].finished
    /\ \E h \in Hosts : active_pids[h] = "inactive"

TrackedWorkers == {k \in DOMAIN workers : workers[k].tracked}

ListItems(list) == {list[i] : i \in DOMAIN list}

\* C26: _cmd_reply holds, under each hostname, exactly the IDs of the tracked
\* workers of that host (commands sent with check_reply=True, configuration
\* workers) that have not finished, each once; no two tracked workers share
\* an ID, and workers sent with check_reply=False have none.
C26_TrackedIds ==
    /\ \A h \in Hosts :
          /\ ListItems(cmd_reply[h]) = {workers[k].cmd_id :
                                           k \in {t \in TrackedWorkers :
                                                     /\ workers[t].hostname = h
                                                     /\ ~workers[t].finished}}
          /\ Cardinality(ListItems(cmd_reply[h])) = Len(cmd_reply[h])
    /\ \A k \in TrackedWorkers, l \in TrackedWorkers :
          k # l => workers[k].cmd_id # workers[l].cmd_id
    /\ \A k \in TrackedWorkers : workers[k].cmd_id \in 0..(cmd_id - 1)
    /\ \A k \in DOMAIN workers : ~workers[k].tracked => workers[k].cmd_id = -1
    /\ cmd_id = Cardinality(TrackedWorkers)

\* a configuration worker has finished while a later command is still awaited
C26_Witness ==
    /\ Len(workers) = 2
    /\ workers[1].func = "configure_server"
    /\ workers[1].finished
    /\ workers[2].tracked
    /\ ~workers[2].finished
    /\ cmd_reply[workers[2].hostname] = <<1>>

(***************************************************************************)
(* Properties of a whole reconstruction                                    *)
(***************************************************************************)
RowSamples(k) == window_log[k].row_window \cup window_log[k].wait_window

\* C27: when every row handed to _process_row has start_timestamp <=
\* stop_timestamp, no beam sample lies in the windows (row or wait) of two
\* rows, nor in both windows of one row.
C27_WindowsDisjoint ==
    (\A k \in DOMAIN window_log :
        window_log[k].row.row_start_timestamp <= window_log[k].row.row_stop_timestamp) =>
        /\ \A k \in DOMAIN window_log :
              window_log[k].row_window \cap window_log[k].wait_window = {}
        /\ \A k \in DOMAIN window_log, l \in DOMAIN window_log :
              k # l => RowSamples(k) \cap RowSamples(l) = {}

\* two rows were processed, each with samples in its row window, the second
\* with a wait window as well
C27_Witness ==
    /\ Len(window_log) = 2
    /\ error = "none"
    /\ window_log[1].row_window # {}
    /\ window_log[2].row_window # {}
    /\ window_log[2].wait_window # {}
    /\ wait_ran

\* the row _process_row has just been called with starts at neither edge
StartsAtNeitherEdge(row) ==
    /\ ~StrictlyWithin(row.row_start_x, StartEdge)
    /\ ~StrictlyWithin(row.row_start_x, StopEdge)

\* C28: a row whose start_x matches neither scan-area edge raises before any
\* deposition: the step that processes it leaves both grids as the previous
\* row left them, makes no kernel call and ends the reconstruction with an
\* error, with or without a wait window.
C28_NoDepositBeforeError ==
    [][(rows_done' = rows_done + 1 /\ StartsAtNeitherEdge(row_data')) =>
          /\ fluence_map' = fluence_map
          /\ fluence_map_error' = fluence_map_error
          /\ deposits' = <<>>
          /\ error' # "none"
          /\ pc' = "raised"
          /\ (row_window' # {} \/ wait_ran') => error' = NeitherEdge]_vars

\* the second row started at neither edge, had a wait window that was handed
\* to the wait pass, and found grids the first row had filled
C28_Witness ==
    /\ rows_done = 2
    /\ StartsAtNeitherEdge(row_data)
    /\ wait_ran
    /\ wait_window # {}
    /\ error = NeitherEdge
    /\ \E c \in MapCells : fluence_map[c[1]][c[2]] # 0

\* the variance grid after the first k kernel calls of the row being processed
VarianceAfter(k) ==
    ApplyDeposits(fluence_map, fluence_map_error, SubSeq(deposits', 1, k),
                  map_bin_centers_x(irrad_data), map_bin_centers_y(irrad_data),
                  beam_sigma(irrad_data)).map_2d_error

\* C29: before finalization every cell of the variance grid is >= 0 and no
\* kernel call of a row lowers a cell, whatever the signs of the beam
\* currents and of their errors.
C29_VarianceMonotone ==
    [][(rows_done' = rows_done + 1) =>
          /\ VarianceAfter(Len(deposits')) = fluence_map_error'
          /\ \A k \in 1..Len(deposits'), c \in MapCells :
                VarianceAfter(k)[c[1]][c[2]] >= VarianceAfter(k - 1)[c[1]][c[2]]
          /\ \A c \in MapCells : /\ fluence_map_error[c[1]][c[2]] >= 0
                                 /\ fluence_map_error'[c[1]][c[2]] >= 0]_vars

\* a row with a negative current and a negative current error raised a cell
\* of the variance grid and lowered the same cell of the value grid
C29_Witness ==
    /\ rows_done = 2
    /\ error = "none"
    /\ wait_ran
    /\ \E k \in row_window : beam_data[k].beam_current < 0
    /\ \E k \in row_window : beam_data[k].beam_current_error < 0
    /\ \E c \in MapCells : /\ fluence_map_error[c[1]][c[2]] > 0
                           /\ fluence_map[c[1]][c[2]] < 0

(***************************************************************************)
(* Properties of the register methods of TCA9555                           *)
(***************************************************************************)
\* C21 as stated: get_state(reg) and get_port_state(reg, port) return, for
\* every register and port, the same state string that _get_state and
\* _get_port_state return for the same device state.
C21_AsStated ==
    io_call.method \in {"get_state", "get_port_state"} =>
        /\ io_result.error = io_result.private.error
        /\ io_result.value = io_result.private.value

\* the 16-bit string _set_state was asked for, and its 8 bits for a port
TargetRegState == _create_state(io_call.state, _n_io_bits).state

TargetPortState(port) ==
    SubSeq(TargetRegState, port * _n_bits_per_port + 1, (port + 1) * _n_bits_per_port)

WritesTo(port) == SelectSeq(io_result.private.writes, LAMBDA w : w.port = port)

device_busy == ~device_available

\* C30 as stated: whenever no thread is inside a method decorated with
\* _event_lock, the device is available (device_busy is False), also after
\* the body of a decorated method has raised.
C30_AsStated == (\A t \in Threads : thread_pc[t] = "idle") => ~device_busy

====
